---- MODULE Spec2Model ----
(***************************************************************************)
(* Model of the sdcomms element library (src/sdcomms/comms.py and the      *)
(* wrappers of dsp_wrappers.py).                                           *)
(*                                                                         *)
(* Every class of comms.py is a constructor: it starts from an empty       *)
(* schemdraw Element (no segments, no anchors, no element parameters),     *)
(* appends drawing primitives, assigns named anchors and sets the drop     *)
(* point.  The state of the model is the last constructor call and what it *)
(* returned (or the exception it raised).  The caller holds one element at *)
(* a time: it constructs one, looks at it, lets go of it and constructs    *)
(* the next, and every constructor starts from a fresh Element.            *)
(*                                                                         *)
(* A constructor hands arguments on to the constructor of its schemdraw    *)
(* base class; `supercall` holds what that constructor received.  The      *)
(* classes of comms.py hand on nothing; Filter of dsp_wrappers.py hands on *)
(* all its arguments, and what schemdraw draws for them is outside the     *)
(* library: segments, anchors and parameters hold what the library's code  *)
(* added.                                                                  *)
(*                                                                         *)
(* Numbers are Python ints and floats, held by value: a float is an       *)
(* IEEE-754 binary64 number and every operation on numbers rounds as the   *)
(* float operation does.  A point is <<x, y>>.                             *)
(***************************************************************************)
EXTENDS Integers, Sequences, FiniteSets, TLC

VARIABLES call, status, segments, anchors, elmparams, userparams, rng, first,
          drawers, supercall

vars == <<call, status, segments, anchors, elmparams, userparams, rng, first,
          drawers, supercall>>

(***************************************************************************)
(* Bounds of the model.                                                    *)
(***************************************************************************)
\* largest anchor count per edge that a call is given
MaxCount == 3
\* the number of constructions that draw random numbers in one run
MaxDrawings == 3

(***************************************************************************)
(* Python numbers.  An int and a float are held by value as                *)
(* <<sign, exponent, digits>>: sign is -1, 0 or 1, digits are the four     *)
(* base-2^14 digits of the 53-bit significand, least significant first,    *)
(* left-justified (top digit >= 8192, low three bits 0), and the value is  *)
(* sign * digits * 2^(exponent - 55).  Every operation computes the exact  *)
(* result and rounds it to nearest, ties to even, as IEEE-754 binary64     *)
(* does; exponents are not bounded (no overflow, no subnormals).           *)
(***************************************************************************)
Base == 2^14

\* the Python list a loop or a comprehension builds: the function on 1 .. n as
\* a sequence of evaluated elements
List(f) == <<>> \o f

Abs(a) == IF a < 0 THEN -a ELSE a

\* the number of bits of n
RECURSIVE BitCount(_)
BitCount(n) == IF n = 0 THEN 0 ELSE 1 + BitCount(n \div 2)
BitLens == List([n \in 1..(Base - 1) |-> BitCount(n)])
RECURSIVE BitLen(_)
BitLen(n) == IF n = 0 THEN 0 ELSE IF n < Base THEN BitLens[n] ELSE 14 + BitLen(n \div Base)

\* natural numbers of any size: base-2^14 digits, least significant first
RECURSIVE BigTrim(_)
BigTrim(a) ==
    IF Len(a) = 0 \/ a[Len(a)] # 0 THEN a
    ELSE BigTrim(SubSeq(a, 1, Len(a) - 1))

RECURSIVE BigCarry(_, _, _)
BigCarry(cols, k, carry) ==
    IF k > Len(cols)
    THEN IF carry = 0 THEN <<>>
         ELSE <<carry % Base>> \o BigCarry(cols, k, carry \div Base)
    ELSE <<(cols[k] + carry) % Base>>
         \o BigCarry(cols, k + 1, (cols[k] + carry) \div Base)

BigOfInt(n) == BigTrim(BigCarry(<<n>>, 1, 0))

BigBitLen(a) == IF Len(a) = 0 THEN 0 ELSE 14 * (Len(a) - 1) + BitLen(a[Len(a)])

\* the fourteen bits of n from bit p upwards (bit 0 is the lowest; bits
\* below it are 0)
BigWindow(n, p) ==
    ((IF p >= 0 /\ (p \div 14) < Len(n) THEN n[(p \div 14) + 1] \div 2^(p % 14) ELSE 0)
     + (IF p >= -14 /\ (p \div 14) + 1 < Len(n)
        THEN n[(p \div 14) + 2] * 2^(14 - (p % 14)) ELSE 0)) % Base

\* a * 2^s
BigShl(a, s) ==
    IF s = 0 \/ Len(a) = 0 THEN a
    ELSE BigTrim(List([k \in 1..(Len(a) + (s \div 14) + 1) |->
                         BigWindow(a, 14 * (k - 1) - s)]))

\* a \div 2^s
BigShr(a, s) ==
    IF Len(a) <= (s \div 14) THEN <<>>
    ELSE BigTrim(List([k \in 1..(Len(a) - (s \div 14)) |->
        (a[k + (s \div 14)] \div 2^(s % 14))
        + (IF k + (s \div 14) < Len(a)
           THEN (a[k + (s \div 14) + 1] % 2^(s % 14)) * 2^(14 - (s % 14))
           ELSE 0)]))

\* a % 2^s # 0
BigLost(a, s) ==
    \/ \E k \in 1..Len(a) : k <= (s \div 14) /\ a[k] # 0
    \/ (s \div 14) < Len(a) /\ (a[(s \div 14) + 1] % 2^(s % 14)) # 0

BigDigit(a, k) == IF k <= Len(a) THEN a[k] ELSE 0

BigAdd(a, b) ==
    BigCarry(List([k \in 1..(IF Len(a) > Len(b) THEN Len(a) ELSE Len(b)) |->
                     BigDigit(a, k) + BigDigit(b, k)]), 1, 0)

RECURSIVE BigBorrow(_, _, _, _)
BigBorrow(a, b, k, borrow) ==
    IF k > Len(a) THEN <<>>
    ELSE IF a[k] - BigDigit(b, k) - borrow < 0
         THEN <<a[k] - BigDigit(b, k) - borrow + Base>> \o BigBorrow(a, b, k + 1, 1)
         ELSE <<a[k] - BigDigit(b, k) - borrow>> \o BigBorrow(a, b, k + 1, 0)

\* a - b for a >= b
BigSub(a, b) == BigTrim(BigBorrow(a, b, 1, 0))

RECURSIVE BigCmpAt(_, _, _)
BigCmpAt(a, b, k) ==
    IF k = 0 THEN 0
    ELSE IF a[k] # b[k] THEN (IF a[k] < b[k] THEN -1 ELSE 1)
    ELSE BigCmpAt(a, b, k - 1)

\* -1, 0, 1 as a < b, a = b, a > b
BigCmp(a, b) ==
    IF Len(a) # Len(b) THEN (IF Len(a) < Len(b) THEN -1 ELSE 1)
    ELSE BigCmpAt(a, b, Len(a))

\* a[i] * b[k + 1 - i] summed over i .. hi
RECURSIVE BigColumn(_, _, _, _, _)
BigColumn(a, b, k, i, hi) ==
    IF i > hi THEN 0 ELSE a[i] * b[k + 1 - i] + BigColumn(a, b, k, i + 1, hi)

\* a * b for factors of at most eight digits
BigMul(a, b) ==
    IF Len(a) = 0 \/ Len(b) = 0 THEN <<>>
    ELSE BigTrim(BigCarry(List([k \in 1..(Len(a) + Len(b) - 1) |->
        BigColumn(a, b, k, IF k > Len(b) THEN k + 1 - Len(b) ELSE 1,
                  IF k < Len(a) THEN k ELSE Len(a))]), 1, 0))

\* <<a \div m, a % m>> for one digit m, taken from digit k down
RECURSIVE BigShort(_, _, _, _)
BigShort(a, m, k, r) ==
    IF k = 0 THEN <<<<>>, r>>
    ELSE LET rest == BigShort(a, m, k - 1, (r * Base + a[k]) % m)
         IN  <<rest[1] \o <<(r * Base + a[k]) \div m>>, rest[2]>>

\* the largest digit q with q * b <= r, counted down from the estimate
RECURSIVE BigLong(_, _, _, _)
BigLongNext(rq, b, n) == BigLong(rq[1], b, n - 1, rq[2])

RECURSIVE BigQuoDigit(_, _, _)
BigQuoDigit(r, b, q) ==
    IF BigCmp(BigMul(b, <<q>>), r) > 0 THEN BigQuoDigit(r, b, q - 1) ELSE q

BigEstimate(r, b) ==
    IF (BigDigit(r, 5) * Base + BigDigit(r, 4)) \div b[4] >= Base THEN Base - 1
    ELSE (BigDigit(r, 5) * Base + BigDigit(r, 4)) \div b[4]

BigStep(r, b, n, q, d) == <<BigSub(r, BigMul(b, <<d>>)), <<d>> \o q>>

\* <<q * Base^n + (r * Base^n) \div b, (r * Base^n) % b>> for r < b and a
\* four-digit b whose top digit is at least Base / 2 (long division)
BigLong(r, b, n, q) ==
    IF n = 0 THEN <<q, r>>
    ELSE BigLongNext(BigStep(IF Len(r) = 0 THEN r ELSE <<0>> \o r, b, n, q,
                             BigQuoDigit(IF Len(r) = 0 THEN r ELSE <<0>> \o r, b,
                                         BigEstimate(<<0>> \o r, b))), b, n)

Zero == <<0, 0, <<0, 0, 0, 0>>>>

\* the four digits after rounding: m is left-justified in four digits, sticky
\* tells that bits were lost below it
RoundUp(m, sticky) ==
    \/ (m[1] % 8) > 4
    \/ (m[1] % 8) = 4 /\ (sticky \/ ((m[1] \div 8) % 2) = 1)

RoundDigits(m, up) ==
    IF ~up THEN <<m[1] - (m[1] % 8), m[2], m[3], m[4]>>
    ELSE IF m[1] - (m[1] % 8) + 8 < Base THEN <<m[1] - (m[1] % 8) + 8, m[2], m[3], m[4]>>
    ELSE BigCarry(<<m[1] - (m[1] % 8) + 8, m[2], m[3], m[4]>>, 1, 0)

Pack(s, e, m) ==
    IF Len(m) = 5 THEN <<s, e + 1, <<0, 0, 0, 8192>>>> ELSE <<s, e, m>>

\* the top 56 bits of n, which has len bits
Justify(n, len) ==
    <<BigWindow(n, len - 56), BigWindow(n, len - 42),
      BigWindow(n, len - 28), BigWindow(n, len - 14)>>

RoundOff(s, e, m, sticky) == Pack(s, e, RoundDigits(m, RoundUp(m, sticky)))

RoundAt(s, n, e2, sticky, len) ==
    RoundOff(s, len - 1 + e2, Justify(n, len),
             sticky \/ (len > 56 /\ BigLost(n, len - 56)))

\* the float nearest to s * (n + sticky) * 2^e2, n a natural number > 0
Round(s, n, e2, sticky) == RoundAt(s, n, e2, sticky, BigBitLen(n))

\* int -> number
R(k) == IF k = 0 THEN Zero
        ELSE Round(IF k < 0 THEN -1 ELSE 1,
                   IF Abs(k) < Base THEN <<Abs(k)>> ELSE BigOfInt(Abs(k)), 0, FALSE)

RNeg(a) == <<-a[1], a[2], a[3]>>

\* the product of two significands: its columns, carried
Product(a, b) ==
    BigCarry(<<a[1] * b[1],
               a[1] * b[2] + a[2] * b[1],
               a[1] * b[3] + a[2] * b[2] + a[3] * b[1],
               a[1] * b[4] + a[2] * b[3] + a[3] * b[2] + a[4] * b[1],
               a[2] * b[4] + a[3] * b[3] + a[4] * b[2],
               a[3] * b[4] + a[4] * b[3],
               a[4] * b[4]>>, 1, 0)

RMul(a, b) ==
    IF a[1] = 0 \/ b[1] = 0 THEN Zero
    ELSE Round(a[1] * b[1], Product(a[3], b[3]), a[2] + b[2] - 110, FALSE)

\* a + b for a, b # 0 whose significands ma, mb are in units of 2^(emin - 55)
AddSign(a, b, ma, mb) ==
    IF a[1] = b[1] \/ BigCmp(ma, mb) >= 0 THEN a[1] ELSE b[1]

AddDigits(a, b, ma, mb) ==
    IF a[1] = b[1] THEN BigAdd(ma, mb)
    ELSE IF BigCmp(ma, mb) >= 0 THEN BigSub(ma, mb) ELSE BigSub(mb, ma)

AddRound(s, n, emin) == IF Len(n) = 0 THEN Zero ELSE Round(s, n, emin - 55, FALSE)

AddAligned(a, b, emin, ma, mb) ==
    AddRound(AddSign(a, b, ma, mb), AddDigits(a, b, ma, mb), emin)

AddExact(a, b, emin) ==
    AddAligned(a, b, emin, BigShl(a[3], a[2] - emin), BigShl(b[3], b[2] - emin))

RAdd(a, b) ==
    IF a[1] = 0 THEN b
    ELSE IF b[1] = 0 THEN a
    ELSE AddExact(a, b, IF a[2] < b[2] THEN a[2] ELSE b[2])

RSub(a, b) == RAdd(a, RNeg(b))

DivShort(s, e, qr) == Round(s, BigTrim(qr[1]), e - 70, qr[2] # 0)
DivLong(s, e, qr) == Round(s, BigTrim(qr[1]), e - 56, Len(qr[2]) # 0)

RDiv(a, b) ==
    IF b[1] = 0 THEN "ZeroDivisionError"
    ELSE IF a[1] = 0 THEN Zero
    ELSE IF b[3][1] = 0 /\ b[3][2] = 0 /\ b[3][3] = 0
    THEN DivShort(a[1] * b[1], a[2] - b[2],
                  BigShort(<<0, 0>> \o a[3], b[3][4], 6, 0))
    ELSE DivLong(a[1] * b[1], a[2] - b[2],
                 IF BigCmp(a[3], b[3]) >= 0
                 THEN BigLong(BigSub(a[3], b[3]), b[3], 4, <<1>>)
                 ELSE BigLong(a[3], b[3], 4, <<>>))

Dec(n, d) == RDiv(R(n), R(d))

(***************************************************************************)
(* Python building blocks: dict, range, f-string, exceptions.              *)
(***************************************************************************)
EmptyDict == [k \in {} |-> 0]

\* d[k] = v
DictSet(d, k, v) == [x \in (DOMAIN d) \cup {k} |-> IF x = k THEN v ELSE d[x]]

\* d.get(k, None): a lookup that never raises
SubscriptOrNone(d, k) ==
    IF k \in DOMAIN d THEN [raised |-> "none", value |-> d[k]]
                      ELSE [raised |-> "none", value |-> "None"]

\* d[k] as an expression: the value, or KeyError when k is not a key of d
Subscript(d, k) ==
    IF k \in DOMAIN d THEN [raised |-> "none", value |-> d[k]]
                      ELSE [raised |-> "KeyError", value |-> k]

\* f"{prefix}{i}": the prefix followed by the decimal form of the integer i
FStr(prefix, i) == prefix \o ToString(i)

\* module-level colour constants
OPTcol == "#154d76"
OPTfill == "white"

\* schemdraw primitives as the constructors build them
SegmentPoly(verts, fill) == [kind |-> "SegmentPoly", verts |-> verts, fill |-> fill]
Segment(path) == [kind |-> "Segment", path |-> path]

\* super().__init__(**kwargs) of a call without further keyword arguments:
\* no positional and no keyword argument reaches the schemdraw base class
NoBase == [args |-> <<>>, kwargs |-> EmptyDict]

\* Element.__init__(): an element with nothing drawn and nothing named yet
Element ==
    [raised |-> "none", segments |-> <<>>, anchors |-> EmptyDict,
     elmparams |-> EmptyDict, userparams |-> EmptyDict, supercall |-> NoBase]

\* an exception leaves the constructor: no element is returned
Raise(exc) ==
    [raised |-> exc, segments |-> <<>>, anchors |-> EmptyDict,
     elmparams |-> EmptyDict, userparams |-> EmptyDict, supercall |-> NoBase]

\* further keyword arguments of a call (loc=, ofst=, color=, lw=, arrow=, ...)
With(seg, opts) == opts @@ seg

\* self.color(c)
SetColor(self, c) == [self EXCEPT !.userparams = DictSet(@, "color", c)]
\* self.label(text, loc=..., ofst=..., color=...)
SetLabelAt(self, text, opts) ==
    [self EXCEPT !.userparams = DictSet(@, "label", With([text |-> text], opts))]

(***************************************************************************)
(* dsp_wrappers.py: Filter, a subclass of schemdraw.dsp.Filter.            *)
(***************************************************************************)
\* kwargs.setdefault(k, v): v is stored only when k is not yet a key
SetDefault(kwargs, k, v) == IF k \in DOMAIN kwargs THEN kwargs ELSE DictSet(kwargs, k, v)

\* the element whose base class constructor received args and kwargs
SuperInit(args, kwargs) == [Element EXCEPT !.supercall = [args |-> args, kwargs |-> kwargs]]

\* sdcomms.Filter.__init__(*args, **kwargs): fill defaults to "white"
FilterInit(args, kwargs) == SuperInit(args, SetDefault(kwargs, "fill", "white"))

\* Filter.__init__ of src/comms/dsp_wrappers.py: fill defaults to OPTfill
\* and color to OPT
CommsFilterInit(args, kwargs) ==
    SuperInit(args, SetDefault(SetDefault(kwargs, "fill", "white"), "color", "#154d76"))

(***************************************************************************)
(* Rectangle.__init__                                                      *)
(***************************************************************************)
\* the border polygon without its closing vertex
RectangleBorderOpen(width, height) ==
    << <<R(0), RDiv(RNeg(height), R(2))>>,
       <<width, RDiv(RNeg(height), R(2))>>,
       <<width, RDiv(height, R(2))>>,
       <<R(0), RDiv(height, R(2))>> >>

RectangleBorder(width, height) ==
    << <<R(0), RDiv(RNeg(height), R(2))>>,
       <<width, RDiv(RNeg(height), R(2))>>,
       <<width, RDiv(height, R(2))>>,
       <<R(0), RDiv(height, R(2))>>,
       <<R(0), RDiv(RNeg(height), R(2))>> >>

\* the North anchor computed from i instead of i + 1
RectAnchorNFromZero(i, width, height, numN) ==
    << RDiv(RMul(R(i), width), R(numN + 1)), RDiv(height, R(2)) >>

RectAnchorN(i, width, height, numN) ==
    << RDiv(RMul(R(i + 1), width), R(numN + 1)), RDiv(height, R(2)) >>

\* the South anchors spread over numS parts instead of numS + 1
RectAnchorSOverCount(i, width, height, numS) ==
    << RDiv(RMul(R(i + 1), width), R(numS)), RDiv(RNeg(height), R(2)) >>

RectAnchorS(i, width, height, numS) ==
    << RDiv(RMul(R(i + 1), width), R(numS + 1)), RDiv(RNeg(height), R(2)) >>

\* the East anchor without the shift that centres the edge on y = 0
RectAnchorEUncentred(i, width, height, numE) ==
    << width, RDiv(RMul(R(i + 1), height), R(numE + 1)) >>

RectAnchorE(i, width, height, numE) ==
    << width,
       RSub(RDiv(RMul(R(i + 1), height), R(numE + 1)), RDiv(height, R(2))) >>

\* the West anchors counted from the corner instead of one step in
RectAnchorWFromZero(i, width, height, numW) ==
    << R(0),
       RSub(RDiv(RMul(R(i), height), R(numW + 1)), RDiv(height, R(2))) >>

RectAnchorW(i, width, height, numW) ==
    << R(0),
       RSub(RDiv(RMul(R(i + 1), height), R(numW + 1)), RDiv(height, R(2))) >>

NameN(i) == FStr("N", i)
NameS(i) == FStr("S", i)
NameE(i) == FStr("E", i)
\* the West anchors stored under the East names
NameWAsE(i) == FStr("E", i)
NameW(i) == FStr("W", i)

\* for i in range(numN): self.anchors[f"N{i}"] = ...
RECURSIVE RectLoopN(_, _, _, _, _)
RectLoopN(a, i, width, height, numN) ==
    IF i >= numN THEN a
    ELSE RectLoopN(DictSet(a, NameN(i), RectAnchorN(i, width, height, numN)),
                   i + 1, width, height, numN)

RECURSIVE RectLoopS(_, _, _, _, _)
RectLoopS(a, i, width, height, numS) ==
    IF i >= numS THEN a
    ELSE RectLoopS(DictSet(a, NameS(i), RectAnchorS(i, width, height, numS)),
                   i + 1, width, height, numS)

RECURSIVE RectLoopE(_, _, _, _, _)
RectLoopE(a, i, width, height, numE) ==
    IF i >= numE THEN a
    ELSE RectLoopE(DictSet(a, NameE(i), RectAnchorE(i, width, height, numE)),
                   i + 1, width, height, numE)

RECURSIVE RectLoopW(_, _, _, _, _)
RectLoopW(a, i, width, height, numW) ==
    IF i >= numW THEN a
    ELSE RectLoopW(DictSet(a, NameW(i), RectAnchorW(i, width, height, numW)),
                   i + 1, width, height, numW)

\* the drop point looked up at the first East anchor
DropKeyFirst(numE) == FStr("E", 0)
\* the drop point looked up one index too far
DropKeyPastEnd(numE) == FStr("E", numE)
\* f"E{numE - 1}"
DropKey(numE) == FStr("E", numE - 1)

\* the drop point looked up at the middle of the East edge
DropLookupMiddle(a, numE) == Subscript(a, FStr("E", (numE - 1) \div 2))
\* self.anchors[f"E{numE - 1}"]
DropLookup(a, numE) == Subscript(a, DropKey(numE))

\* the four loops of Rectangle.__init__, in their order
RectAnchors(a, width, height, numN, numS, numE, numW) ==
    RectLoopW(RectLoopE(RectLoopS(RectLoopN(a, 0, width, height, numN),
                                  0, width, height, numS),
                        0, width, height, numE),
              0, width, height, numW)

\* self.elmparams["drop"] = the anchor looked up; a failed lookup raises
SetDrop(self, look) ==
    IF look.raised # "none" THEN Raise(look.raised)
    ELSE [self EXCEPT !.elmparams = DictSet(@, "drop", look.value)]

\* self.elmparams["drop"] = self.anchors[f"E{numE - 1}"]
DropAtLastEast(self, numE) == SetDrop(self, DropLookup(self.anchors, numE))

RectangleInit(width, height, numN, numS, numE, numW, fillcol) ==
    DropAtLastEast(
        [Element EXCEPT
            !.segments = Append(@, SegmentPoly(RectangleBorder(width, height),
                                               fillcol)),
            !.elmparams = DictSet(DictSet(@, "lblloc", "center"), "lblofst", R(0)),
            !.anchors = RectAnchors(@, width, height, numN, numS, numE, numW)],
        numE)

(***************************************************************************)
(* BS.__init__ : a Rectangle with a diagonal                                *)
(***************************************************************************)
\* the statements of BS.__init__ after super().__init__(...)
BSBody(self, width, height) ==
    IF self.raised # "none" THEN self
    ELSE SetColor(
           [self EXCEPT !.segments =
               Append(@, Segment(<< <<R(0), RDiv(height, R(2))>>,
                                    <<width, RDiv(RNeg(height), R(2))>> >>))],
           OPTcol)

BSInit(width, height, numN, numS, numE, numW) ==
    BSBody(RectangleInit(width, height, numN, numS, numE, numW, OPTfill),
           width, height)

(***************************************************************************)
(* MUX.__init__                                                            *)
(***************************************************************************)
MuxAnchorE(i, width, height2, numE) ==
    << width,
       RSub(RDiv(RMul(R(i + 1), height2), R(numE + 1)), RDiv(height2, R(2))) >>

\* the West anchors of the MUX spaced along the short side
MuxAnchorWShortSide(i, height1, numW) ==
    << R(0), RSub(RDiv(R(i + 1), R(numW + 1)), RDiv(R(1), R(2))) >>

MuxAnchorW(i, height1, numW) ==
    << R(0),
       RSub(RDiv(RMul(R(i + 1), height1), R(numW + 1)), RDiv(height1, R(2))) >>

RECURSIVE MuxLoopE(_, _, _, _, _)
MuxLoopE(a, i, width, height2, numE) ==
    IF i >= numE THEN a
    ELSE MuxLoopE(DictSet(a, FStr("E", i), MuxAnchorE(i, width, height2, numE)),
                  i + 1, width, height2, numE)

RECURSIVE MuxLoopW(_, _, _, _)
MuxLoopW(a, i, height1, numW) ==
    IF i >= numW THEN a
    ELSE MuxLoopW(DictSet(a, FStr("W", i), MuxAnchorW(i, height1, numW)),
                  i + 1, height1, numW)

\* the trapezoid and the anchors of its two sides
MuxShape(numE, numW, height1, height2, width) ==
    [Element EXCEPT
        !.segments =
            Append(@, SegmentPoly(<< <<R(0), RDiv(height1, R(2))>>,
                                     <<width, RDiv(height2, R(2))>>,
                                     <<width, RDiv(RNeg(height2), R(2))>>,
                                     <<R(0), RDiv(RNeg(height1), R(2))>>,
                                     <<R(0), RDiv(height1, R(2))>> >>, OPTfill)),
        !.anchors = MuxLoopW(MuxLoopE(@, 0, width, height2, numE), 0, height1, numW)]

\* the statements after the drop point is set
MuxBody(self) ==
    IF self.raised # "none" THEN self
    ELSE SetLabelAt(SetColor(
           [self EXCEPT !.elmparams =
                DictSet(DictSet(@, "lblloc", "center"), "lblofst", R(0))],
           OPTcol), "MUX", [loc |-> "center"])

MUXInit(numE, numW) ==
    MuxBody(DropAtLastEast(MuxShape(numE, numW, Dec(25, 10), R(1), R(1)), numE))

(***************************************************************************)
(* More building blocks: the other primitives, keyword options, and the    *)
(* three ways a constructor writes into the element.                       *)
(***************************************************************************)
OPTRFcol == "#663399"
OPTRFfill == "white"
RFcol == "#8b0000"
RFfill == "white"

SegmentArc(center, width, height, theta1, theta2) ==
    [kind |-> "SegmentArc", center |-> center, width |-> width,
     height |-> height, theta1 |-> theta1, theta2 |-> theta2]
SegmentCircle(center, radius, fill) ==
    [kind |-> "SegmentCircle", center |-> center, radius |-> radius, fill |-> fill]
SegmentText(pos, label) == [kind |-> "SegmentText", pos |-> pos, label |-> label]

\* self.segments.append(seg)
AppendSeg(self, seg) == [self EXCEPT !.segments = Append(@, seg)]
\* self.segments.extend(segs)
ExtendSegs(self, segs) == [self EXCEPT !.segments = @ \o segs]
\* self.anchors[name] = point
SetAnchor(self, name, point) == [self EXCEPT !.anchors = DictSet(@, name, point)]
\* self.elmparams[key] = value
SetParam(self, key, value) == [self EXCEPT !.elmparams = DictSet(@, key, value)]

(***************************************************************************)
(* random.random(): the process-wide generator, the Mersenne Twister of    *)
(* CPython's random module.  A 32-bit word is held as three base-2^14      *)
(* digits, least significant first (the top digit below 16); the table mt  *)
(* holds 624 words.                                                        *)
(***************************************************************************)
\* the word hi * 2^16 + lo
Word(hi, lo) == <<lo % Base, (lo \div Base) + (hi % 4096) * 4, hi \div 4096>>

\* a ^ b for a, b < 128
RECURSIVE BitXor(_, _)
BitXor(a, b) ==
    IF a = 0 THEN b ELSE IF b = 0 THEN a
    ELSE ((a + b) % 2) + 2 * BitXor(a \div 2, b \div 2)
XorTable == List([a \in 1..128 |-> List([b \in 1..128 |-> BitXor(a - 1, b - 1)])])
\* a ^ b, a & b for digits
DigitXor(a, b) ==
    XorTable[(a \div 128) + 1][(b \div 128) + 1] * 128 + XorTable[(a % 128) + 1][(b % 128) + 1]
DigitAnd(a, b) == (a + b - DigitXor(a, b)) \div 2

\* a ^ b, a & b, a >> s, a << s, a + b, a * b on 32-bit words
WXor(a, b) == <<DigitXor(a[1], b[1]), DigitXor(a[2], b[2]), DigitXor(a[3], b[3])>>
WAnd(a, b) == <<DigitAnd(a[1], b[1]), DigitAnd(a[2], b[2]), DigitAnd(a[3], b[3])>>
WShr(a, s) == <<BigWindow(a, s), BigWindow(a, s + 14), BigWindow(a, s + 28)>>
WShl(a, s) == <<BigWindow(a, -s), BigWindow(a, 14 - s), BigWindow(a, 28 - s) % 16>>
WCarry(c) ==
    <<c[1] % Base, (c[2] + (c[1] \div Base)) % Base,
      (c[3] + ((c[2] + (c[1] \div Base)) \div Base)) % 16>>
WAdd(a, b) == WCarry(<<a[1] + b[1], a[2] + b[2], a[3] + b[3]>>)
WMul(a, b) ==
    WCarry(<<a[1] * b[1], a[1] * b[2] + a[2] * b[1],
             a[1] * b[3] + a[2] * b[2] + a[3] * b[1]>>)
\* -i as a word, 0 < i < 2^14
WNeg(i) == <<Base - i, Base - 1, 15>>

\* mt[i - 1] ^ (mt[i - 1] >> 30)
Mixed(w) == WXor(w, WShr(w, 30))

\* a loop over [lo, hi) of the table is run as its first half, then its second
\* init_genrand(s): mt[i] = 1812433253 * (mt[i-1] ^ (mt[i-1] >> 30)) + i
RECURSIVE InitGenrandLoop(_, _, _)
InitGenrandLoop(mt, lo, hi) ==
    IF hi - lo = 1
    THEN Append(mt, WAdd(WMul(Word(27655, 35173), Mixed(mt[lo])), Word(0, lo)))
    ELSE LET half == InitGenrandLoop(mt, lo, (lo + hi) \div 2)
         IN  IF Len(half) = 0 THEN half ELSE InitGenrandLoop(half, (lo + hi) \div 2, hi)
InitGenrand(s) == InitGenrandLoop(<<s>>, 1, 624)

\* init_by_array(key) for a key of one word, first loop, steps lo .. hi - 1 of
\* i = 1 .. 623: mt[i] = (mt[i] ^ ((mt[i-1] ^ (mt[i-1] >> 30)) * 1664525)) + key[0]
RECURSIVE KeyLoop(_, _, _, _)
KeyLoop(mt, key, lo, hi) ==
    IF hi - lo = 1
    THEN [mt EXCEPT ![lo + 1] =
            WAdd(WXor(@, WMul(Mixed(mt[lo]), Word(25, 26125))), key)]
    ELSE LET half == KeyLoop(mt, key, lo, (lo + hi) \div 2)
         IN  IF Len(half) = 0 THEN half ELSE KeyLoop(half, key, (lo + hi) \div 2, hi)

\* i reached 624: mt[0] = mt[623]; i = 1
Wrapped(mt) == [mt EXCEPT ![1] = mt[624]]

\* second loop: mt[i] = (mt[i] ^ ((mt[i-1] ^ (mt[i-1] >> 30)) * 1566083941)) - i
RECURSIVE FinalLoop(_, _, _)
FinalLoop(mt, lo, hi) ==
    IF hi - lo = 1
    THEN [mt EXCEPT ![lo + 1] =
            WAdd(WXor(@, WMul(Mixed(mt[lo]), Word(23896, 35685))), WNeg(lo))]
    ELSE LET half == FinalLoop(mt, lo, (lo + hi) \div 2)
         IN  IF Len(half) = 0 THEN half ELSE FinalLoop(half, (lo + hi) \div 2, hi)

\* init_by_array([key]): 624 steps of the first loop (i = 1 .. 623, 1), 623 of
\* the second (i = 2 .. 623, 1), then mt[0] = 0x80000000
InitByArray(key) ==
    [FinalLoop(Wrapped(FinalLoop(
        KeyLoop(Wrapped(KeyLoop(InitGenrand(Word(299, 54954)), key, 1, 624)), key, 1, 2),
        2, 624)), 1, 2) EXCEPT ![1] = Word(32768, 0)]

\* random.seed(s) for an int 0 <= s < 2^16: the table, to be twisted before use
Seeded(s) == InitByArray(Word(0, s))

\* the next state of word kk (from 0) in genrand_uint32's regeneration:
\* y = (mt[kk] & UPPER_MASK) | (mt[kk+1] & LOWER_MASK);
\* mt[kk] = mt[kk + 397] ^ (y >> 1) ^ mag01[y & 1]
TwistWord(mt, kk) ==
    WXor(WXor(mt[((kk + 397) % 624) + 1],
              WAdd(WShr(WAnd(mt[kk + 1], Word(32768, 0)), 1),
                   WShr(WAnd(mt[((kk + 1) % 624) + 1], Word(32767, 65535)), 1))),
         IF mt[((kk + 1) % 624) + 1][1] % 2 = 1 THEN Word(39176, 45279) ELSE Word(0, 0))

RECURSIVE TwistLoop(_, _, _)
TwistLoop(mt, lo, hi) ==
    IF hi - lo = 1 THEN [mt EXCEPT ![lo + 1] = TwistWord(mt, lo)]
    ELSE LET half == TwistLoop(mt, lo, (lo + hi) \div 2)
         IN  IF Len(half) = 0 THEN half ELSE TwistLoop(half, (lo + hi) \div 2, hi)
Twist(mt) == TwistLoop(mt, 0, 624)

\* the tempering of an output word
Temper1(y) == WXor(y, WShr(y, 11))
Temper2(y) == WXor(y, WAnd(WShl(y, 7), Word(40236, 22144)))
Temper3(y) == WXor(y, WAnd(WShl(y, 15), Word(61382, 0)))
Temper4(y) == WXor(y, WShr(y, 18))
Temper(y) == Temper4(Temper3(Temper2(Temper1(y))))

\* random_random: a = genrand() >> 5, b = genrand() >> 6,
\* (a * 67108864.0 + b) * (1.0 / 9007199254740992.0)
Fraction53(n) == IF Len(n) = 0 THEN Zero ELSE Round(1, n, -53, FALSE)
RandomOf(w1, w2) ==
    Fraction53(BigAdd(BigShl(BigTrim(WShr(Temper(w1), 5)), 26), BigTrim(WShr(Temper(w2), 6))))

\* every word of the table is w, none of them used yet
Filled(w) == List([k \in 1..624 |-> w])

\* The states the generator is in when a session begins.  The program never
\* seeds the generator, so any state may be the first one; the model takes
\* three: the state random.seed(0) leaves, the state whose next 624 words
\* are all 0xffffffff (every draw the largest float below 1) and the state
\* whose next 624 words are all 1 (every draw 0.0).  Each is given as the
\* table of 624 words the first draws are taken from.
Generators ==
    <<Twist(Seeded(0)), Filled(Word(4829, 39859)), Filled(Word(4130, 17609))>>

\* the tables of words the generator goes through: each the twist of the one
\* before it
RECURSIVE TablesFrom(_, _)
TablesFrom(mt, n) == IF n = 0 THEN <<>> ELSE <<mt>> \o TablesFrom(Twist(mt), n - 1)

\* a construction makes at most 573 draws (two words each)
RngTables ==
    List([s \in 1..Len(Generators) |->
            TablesFrom(Generators[s], ((2 * 573 * MaxDrawings) \div 624) + 1)])

\* The state of the generator is <<s, n>>: it began as Generators[s] and n
\* draws have been made since.
RngWord(g, k) == RngTables[g[1]][(k \div 624) + 1][(k % 624) + 1]

\* the value the generator returns in state g
Random(g) == RandomOf(RngWord(g, 2 * g[2]), RngWord(g, 2 * g[2] + 1))
\* the state of the generator n draws after state g
RngAfter(g, n) == <<g[1], g[2] + n>>
\* the values the next n calls of random.random() return from state g
Draws(g, n) == [k \in 1 .. n |-> Random(RngAfter(g, k - 1))]

(***************************************************************************)
(* math.pi, math.radians, math.sin, math.cos.  The sine and the cosine of  *)
(* a float are computed to 70 binary places from their power series,      *)
(* after the multiple of pi/2 nearest to the argument is taken off, and     *)
(* rounded to the nearest float.  math.sin and math.cos are the sine and    *)
(* the cosine of the C library, which return this float or, when the exact *)
(* value lies within a thousandth of the midpoint of two floats, sometimes *)
(* its neighbour.  The arguments of math.sin and math.cos in this library  *)
(* are constants of the source; the ones on which the C library (glibc,    *)
(* x86-64) returns the neighbour are listed.                               *)
(***************************************************************************)
\* math.pi = 3.141592653589793
Pi == <<1, 1, <<10432, 2181, 15786, 12867>>>>

\* pi/2 to 154 binary places
PiHalf == <<4720, 9504, 3688, 440, 5212, 6348, 6754, 4484, 4363, 15188, 9351, 1>>

\* 1 to 70 binary places
One == <<0, 0, 0, 0, 0, 1>>

\* |x| to 154 binary places, for 2^-27 <= |x| < 2^14
Places(x) == BigShl(x[3], x[2] + 99)

RECURSIVE TurnsDown(_, _)
TurnsDown(f, k) ==
    IF BigCmp(BigMul(PiHalf, <<k>>), f) > 0 THEN TurnsDown(f, k - 1) ELSE k

RECURSIVE TurnsUp(_, _)
TurnsUp(f, k) ==
    IF BigCmp(BigMul(PiHalf, <<k + 1>>), f) <= 0 THEN TurnsUp(f, k + 1) ELSE k

\* f \div PiHalf
Turns(f) ==
    TurnsUp(f, TurnsDown(f, (BigDigit(f, 12) * Base + BigDigit(f, 11))
                            \div (PiHalf[12] * Base + PiHalf[11])))

\* <<k, r, s>>: f = k * PiHalf + s * r with 0 <= r <= PiHalf / 2
ReduceAt(f, k, rem) ==
    IF BigCmp(BigShl(rem, 1), PiHalf) > 0
    THEN <<k + 1, BigSub(PiHalf, rem), -1>>
    ELSE <<k, rem, 1>>

ReduceBy(f, k) == ReduceAt(f, k, BigSub(f, BigMul(PiHalf, <<k>>)))

Reduce(f) == ReduceBy(f, Turns(f))

\* a \div m for one digit m
BigQuo(a, m) == BigTrim(BigShort(a, m, Len(a), 0)[1])

\* 1 - z/(a(a+1)) * (1 - z/((a+2)(a+3)) * (1 - ...)) to 70 places, n
\* factors taken from the innermost one, t, outwards
RECURSIVE Series(_, _, _, _)
Series(z, a, n, t) ==
    IF n = 0 \/ Len(t) = 0 THEN t
    ELSE Series(z, a, n - 1,
                BigSub(One, BigQuo(BigShr(BigMul(z, t), 70),
                                   (a + 2 * n - 2) * (a + 2 * n - 1))))

\* the leading 70 bits m of r and the q with r = m * 2^-q
SinOf(m, q) ==
    Round(1, BigMul(m, Series(BigShr(BigMul(m, m), 2 * q - 70), 2, 10, One)), -q - 70, TRUE)

\* sin(r * 2^-154) for 0 <= r <= PiHalf / 2
SinSmall(r) ==
    IF Len(r) = 0 THEN Zero
    ELSE IF BigBitLen(r) > 70
    THEN SinOf(BigShr(r, BigBitLen(r) - 70), 154 - (BigBitLen(r) - 70))
    ELSE SinOf(r, 154)

CosOf(r) == Round(1, Series(BigShr(BigMul(r, r), 70), 1, 10, One), -70, TRUE)

\* cos(r * 2^-154) for 0 <= r <= PiHalf / 2
CosSmall(r) == CosOf(BigShr(r, 84))

Signed(s, x) == IF s < 0 THEN RNeg(x) ELSE x

SinReduced(krs) ==
    CASE krs[1] % 4 = 0 -> Signed(krs[3], SinSmall(krs[2]))
      [] krs[1] % 4 = 1 -> CosSmall(krs[2])
      [] krs[1] % 4 = 2 -> Signed(-krs[3], SinSmall(krs[2]))
      [] OTHER -> RNeg(CosSmall(krs[2]))

CosReduced(krs) ==
    CASE krs[1] % 4 = 0 -> CosSmall(krs[2])
      [] krs[1] % 4 = 1 -> Signed(-krs[3], SinSmall(krs[2]))
      [] krs[1] % 4 = 2 -> RNeg(CosSmall(krs[2]))
      [] OTHER -> Signed(krs[3], SinSmall(krs[2]))

\* the sine of x rounded to the nearest float
SinNearest(x) ==
    IF x[1] = 0 \/ x[2] < -26 THEN x
    ELSE Signed(x[1], SinReduced(Reduce(Places(x))))

\* the floats next to a float x # 0, away from 0 and towards 0
Outward(x) == Pack(x[1], x[2], BigCarry(<<x[3][1] + 8, x[3][2], x[3][3], x[3][4]>>, 1, 0))
Inward(x) ==
    IF x[3] = <<0, 0, 0, 8192>> THEN <<x[1], x[2] - 1, <<16376, 16383, 16383, 16383>>>>
    ELSE <<x[1], x[2], BigBorrow(x[3], <<8>>, 1, 0)>>

\* the arguments on which the C library's sine is the float next to the
\* nearest one, away from 0: 5.183627878423159, 6.126105674500097,
\* 18.032741831605414
SinOutward ==
    { <<1, 2, <<824, 2619, 1145, 10616>>>>, <<1, 2, <<11400, 4584, 4332, 12546>>>>,
      <<1, 4, <<9904, 6398, 12514, 9232>>>> }
\* and towards 0: 1.4105109873260295, 22.49380339970292
SinInward ==
    { <<1, 0, <<9032, 621, 14844, 11554>>>>, <<1, 4, <<1392, 2444, 13555, 11516>>>> }

\* math.sin(x)
Sin(x) ==
    IF x \in SinOutward THEN Outward(SinNearest(x))
    ELSE IF x \in SinInward THEN Inward(SinNearest(x))
    ELSE SinNearest(x)

\* math.cos(x)
Cos(x) ==
    IF x[1] = 0 \/ x[2] < -26 THEN R(1)
    ELSE CosReduced(Reduce(Places(x)))

\* math.radians(deg) with the next value of the generator added to it
RadiansJittered(deg) == RAdd(RMul(R(deg), RDiv(Pi, R(180))), Random(rng))

\* math.radians(deg)
Radians(deg) == RMul(R(deg), RDiv(Pi, R(180)))

(***************************************************************************)
(* Bend90.__init__, Bend180.__init__                                       *)
(***************************************************************************)
\* the out anchor of Bend90 put on the x axis
Bend90OutOnAxis(radius) == <<RNeg(radius), R(0)>>
Bend90Out(radius) == <<R(0), radius>>

Bend90Init(radius) ==
    LET s1 == AppendSeg(Element,
                SegmentArc(<<R(0), R(0)>>, RMul(R(2), radius), RMul(R(2), radius),
                           R(0), R(90)))
        s2 == SetAnchor(s1, "in", <<radius, R(0)>>)
        s3 == SetAnchor(s2, "out", Bend90Out(radius))
        s4 == SetParam(s3, "drop", <<R(0), radius>>)
    IN  SetColor(s4, OPTcol)

Bend180Init(radius) ==
    LET s1 == AppendSeg(Element,
                SegmentArc(<<R(0), R(0)>>, RMul(R(2), radius), RMul(R(2), radius),
                           R(0), R(180)))
        s2 == SetAnchor(s1, "in", <<radius, R(0)>>)
        s3 == SetAnchor(s2, "out", <<RNeg(radius), R(0)>>)
        s4 == SetParam(s3, "drop", <<RNeg(radius), R(0)>>)
    IN  SetColor(s4, OPTcol)

(***************************************************************************)
(* Termination.__init__, FBG.__init__                                      *)
(***************************************************************************)
TerminationInit ==
    LET s1 == AppendSeg(Element,
                With(Segment(<< <<R(0), R(0)>>, <<R(0), Dec(2, 10)>> >>),
                     [color |-> OPTcol, lw |-> R(2)]))
        s2 == AppendSeg(s1,
                With(Segment(<< <<R(0), R(0)>>, <<R(0), Dec(-2, 10)>> >>),
                     [color |-> OPTcol, lw |-> R(2)]))
        s3 == SetAnchor(s2, "in", <<R(0), R(0)>>)
        s4 == SetAnchor(s3, "out", <<R(0), R(0)>>)
    IN  SetParam(s4, "drop", <<R(0), R(0)>>)

\* the tooth above the grating and the tooth below it, between x0 and x1
FBGTeethDrawn(x0, x1, top, up, bot, dn) ==
    << With(SegmentPoly(<< <<x0, top>>, <<x0, up>>, <<x1, up>>, <<x1, top>>,
                           <<x0, top>> >>, OPTcol), [color |-> OPTcol]),
       With(SegmentPoly(<< <<x0, bot>>, <<x0, dn>>, <<x1, dn>>, <<x1, bot>>,
                           <<x0, bot>> >>, OPTcol), [color |-> OPTcol]) >>

\* 0.5 / 2 + 0.075 and -0.5 / 2 - 0.075
FBGTeethBetween(x0, x1, top, bot) ==
    FBGTeethDrawn(x0, x1, top, RAdd(top, Dec(75, 1000)), bot, RSub(bot, Dec(75, 1000)))

\* the two teeth of the grating at position i, moved by the next value of
\* the generator
FBGTeethJittered(i) ==
    FBGTeethBetween(RAdd(RAdd(Dec(15, 100), RMul(R(i), Dec(2, 10))), Random(rng)),
                    RAdd(RAdd(Dec(25, 100), RMul(R(i), Dec(2, 10))), Random(rng)),
                    RDiv(Dec(5, 10), R(2)), RDiv(Dec(-5, 10), R(2)))

\* the two teeth of the grating at position i
FBGTeeth(i) ==
    FBGTeethBetween(RAdd(Dec(15, 100), RMul(R(i), Dec(2, 10))),
                    RAdd(Dec(25, 100), RMul(R(i), Dec(2, 10))),
                    RDiv(Dec(5, 10), R(2)), RDiv(Dec(-5, 10), R(2)))

\* for i in range(4): the two appends of each iteration
RECURSIVE FBGLoop(_, _)
FBGLoop(self, i) ==
    IF i >= 4 THEN self ELSE FBGLoop(ExtendSegs(self, FBGTeeth(i)), i + 1)

\* the body of the grating between bot = -0.5 / 2 and top = 0.5 / 2
FBGBar(top, bot) ==
    [kind |-> "SegmentPoly",
     verts |-> << <<R(0), bot>>, <<R(1), bot>>, <<R(1), top>>,
                  <<R(0), top>>, <<R(0), bot>> >>,
     color |-> OPTcol]

FBGInit ==
    SetLabelAt(
        SetParam(
            SetAnchor(
                SetAnchor(
                    FBGLoop(AppendSeg(Element,
                                      FBGBar(RDiv(Dec(5, 10), R(2)),
                                             RDiv(Dec(-5, 10), R(2)))), 0),
                    "in", <<R(0), R(0)>>),
                "out", <<R(1), R(0)>>),
            "drop", <<R(1), R(0)>>),
        "FBG", [loc |-> "center", ofst |-> <<R(0), Dec(-3, 100)>>,
                color |-> OPTcol])

(***************************************************************************)
(* Circulator.__init__                                                     *)
(***************************************************************************)
\* _rotate(points, angle_degrees)
\* the loop of _rotate: for x, y in points
RotateBy(points, cos_a, sin_a) ==
    List([k \in 1 .. Len(points) |->
            << RSub(RMul(points[k][1], cos_a), RMul(points[k][2], sin_a)),
               RAdd(RMul(points[k][1], sin_a), RMul(points[k][2], cos_a)) >>])

\* angle_radians = math.radians(angle_degrees) and its cosine and sine
RotateAt(points, angle_radians) ==
    RotateBy(points, Cos(angle_radians), Sin(angle_radians))

Rotate(points, angle_degrees) == RotateAt(points, Radians(angle_degrees))

\* path = [(x + dx, y + dy) for x, y in path]
Shift(path, dx, dy) ==
    List([k \in 1 .. Len(path) |-> <<RAdd(path[k][1], dx), RAdd(path[k][2], dy)>>])

\* the drop point of the Circulator put at the centre of its circle
CirculatorDropAtCentre(radius) == <<R(0), R(0)>>
CirculatorDrop(radius) == <<radius, R(0)>>

\* the arrow head, turned and moved to the new origin at angle a = radians(-70)
CirculatorArrow(radius, a) ==
    Shift(Rotate(<< <<Dec(-8, 100), R(0)>>, <<Dec(8, 100), Dec(6, 100)>>,
                    <<Dec(8, 100), Dec(-6, 100)>> >>, 30),
          RMul(RMul(Dec(6, 10), radius), Cos(a)),
          RMul(RMul(Dec(6, 10), radius), Sin(a)))

\* Circulator.__init__ with its local radius
CirculatorOf(radius) ==
    SetColor(
        SetParam(
            SetAnchor(
                SetAnchor(
                    SetAnchor(
                        AppendSeg(
                            AppendSeg(
                                AppendSeg(Element,
                                          SegmentCircle(<<R(0), R(0)>>, radius, OPTfill)),
                                SegmentArc(<<R(0), R(0)>>, RMul(Dec(12, 10), radius),
                                           RMul(Dec(12, 10), radius), R(-70), R(200))),
                            SegmentPoly(CirculatorArrow(radius, Radians(-70)), OPTcol)),
                        "1", <<RNeg(radius), R(0)>>),
                    "2", <<radius, R(0)>>),
                "3", <<R(0), RNeg(radius)>>),
            "drop", CirculatorDrop(radius)),
        OPTcol)

CirculatorInit == CirculatorOf(Dec(5, 10))

(***************************************************************************)
(* CouplerDot.__init__, CouplerCirc.__init__                               *)
(***************************************************************************)
\* the statement of CouplerDot.__init__ after super().__init__(...)
CouplerDotBody(self) ==
    IF self.raised # "none" THEN self ELSE SetColor(self, OPTcol)

\* CouplerDot built with the default size of a Rectangle
CouplerDotInitDefaultSize ==
    CouplerDotBody(RectangleInit(R(1), R(1), 1, 1, 1, 1, OPTcol))

CouplerDotInit ==
    CouplerDotBody(RectangleInit(R(0), R(0), 1, 1, 1, 1, OPTcol))

\* schemdraw.util.linspace(start, stop, num): num evenly spaced values
LinspaceBy(start, step, num) ==
    List([k \in 1 .. num |-> RAdd(start, RMul(step, R(k - 1)))])
Linspace(start, stop, num) ==
    LinspaceBy(start, RDiv(RSub(stop, start), R(num - 1)), num)

\* y = [(h / 2) * math.sin(t0) for t0 in t]
EllipseY(t, h) == List([k \in 1 .. Len(t) |-> RMul(RDiv(h, R(2)), Sin(t[k]))])
\* the ellipse drawn around x = 0 rather than around x = w / 2
EllipseXCentredAtZero(t, w) ==
    List([k \in 1 .. Len(t) |-> RMul(RDiv(w, R(2)), Cos(t[k]))])
\* x = [(w / 2) * math.cos(t0) + w / 2 for t0 in t]
EllipseX(t, w) ==
    List([k \in 1 .. Len(t) |-> RAdd(RMul(RDiv(w, R(2)), Cos(t[k])), RDiv(w, R(2)))])
\* x[-1] = x[0]
CloseList(x) == [x EXCEPT ![Len(x)] = x[1]]
\* list(zip(x, y))
Zip(x, y) == List([k \in 1 .. Len(x) |-> <<x[k], y[k]>>])

\* the ellipse as a closed path through the angles t
CouplerCircPath(t, w, h) ==
    With(Segment(Zip(CloseList(EllipseX(t, w)), CloseList(EllipseY(t, h)))),
         [fill |-> OPTfill])

\* CouplerCirc.__init__ with its locals w, h
CouplerCircOf(w, h) ==
    SetColor(
        SetParam(
            SetAnchor(
                SetAnchor(
                    SetAnchor(
                        SetAnchor(
                            AppendSeg(Element,
                                CouplerCircPath(Linspace(R(0), RMul(Pi, R(2)), 50), w, h)),
                            "N0", <<RDiv(w, R(2)), RDiv(h, R(2))>>),
                        "S0", <<RDiv(w, R(2)), RDiv(RNeg(h), R(2))>>),
                    "E0", <<w, R(0)>>),
                "W0", <<R(0), R(0)>>),
            "drop", <<w, R(0)>>),
        OPTcol)

CouplerCircInit == CouplerCircOf(Dec(3, 10), Dec(15, 100))

(***************************************************************************)
(* Fiber.__init__, PolCtrl.__init__, VOA.__init__                          *)
(***************************************************************************)
\* the line and the three loops: the loops are centred at height
\* cy = self.radius - 0.3 around mid = 0.05 + self.length / 2
FiberLoops(self, radius, length, mid, cy) ==
    AppendSeg(
        AppendSeg(
            AppendSeg(
                AppendSeg(self, Segment(<< <<Dec(1, 10), Dec(-3, 10)>>,
                                           <<length, Dec(-3, 10)>> >>)),
                SegmentCircle(<<RSub(mid, Dec(125, 1000)), cy>>, radius, "False")),
            SegmentCircle(<<mid, cy>>, radius, "False")),
        SegmentCircle(<<RAdd(mid, Dec(125, 1000)), cy>>, radius, "False"))

\* the statements of Fiber.__init__ after super().__init__(...)
FiberBody(self, radius, length) ==
    IF self.raised # "none" THEN self
    ELSE FiberLoops(SetColor(self, OPTcol), radius, length,
                    RAdd(Dec(5, 100), RDiv(length, R(2))),
                    RSub(radius, Dec(3, 10)))

FiberInit ==
    FiberBody(RectangleInit(Dec(11, 10), Dec(9, 10), 1, 1, 1, 1, OPTfill),
              Dec(3, 10), R(1))

\* the out anchor of PolCtrl put at the middle loop
PolCtrlOutAtMiddle(length) == <<RDiv(length, R(2)), R(0)>>
PolCtrlOut(length) == <<length, R(0)>>

\* PolCtrl.__init__ with its locals radius, length = radius * 6
PolCtrlOf(radius, length) ==
    SetColor(
        SetAnchor(
            SetAnchor(
                SetParam(
                    AppendSeg(
                        AppendSeg(
                            AppendSeg(
                                AppendSeg(Element,
                                    Segment(<< <<R(0), R(0)>>, <<length, R(0)>> >>)),
                                SegmentCircle(<<RSub(RDiv(length, R(2)),
                                                     RMul(R(2), radius)), radius>>,
                                              radius, "False")),
                            SegmentCircle(<<RDiv(length, R(2)), radius>>,
                                          radius, "False")),
                        SegmentCircle(<<RAdd(RDiv(length, R(2)),
                                             RMul(R(2), radius)), radius>>,
                                      radius, "False")),
                    "drop", <<length, R(0)>>),
                "in", <<R(0), R(0)>>),
            "out", PolCtrlOut(length)),
        OPTcol)

PolCtrlSized(radius) == PolCtrlOf(radius, RMul(radius, R(6)))

PolCtrlInit == PolCtrlSized(Dec(19, 100))

\* VOA.__init__ with its locals width, height and the edges of the box
VOAOf(width, height, top, bot) ==
    SetColor(
        SetAnchor(
            SetAnchor(
                SetParam(
                    AppendSeg(
                        AppendSeg(
                            AppendSeg(Element,
                                SegmentPoly(<< <<R(0), top>>, <<width, top>>,
                                               <<width, bot>>, <<R(0), bot>>,
                                               <<R(0), top>> >>, OPTfill)),
                            SegmentCircle(<<RDiv(width, R(2)), R(0)>>,
                                          RDiv(width, R(3)), "False")),
                        With(Segment(<< <<Dec(9, 100), RAdd(bot, Dec(9, 100))>>,
                                        <<RSub(width, Dec(5, 100)),
                                          RSub(top, Dec(5, 100))>> >>),
                             [arrow |-> "->", arrowlength |-> Dec(13, 100),
                              arrowwidth |-> Dec(1, 10)])),
                    "drop", <<width, R(0)>>),
                "W", <<R(0), R(0)>>),
            "E", <<width, R(0)>>),
        OPTcol)

VOASized(width, height) ==
    VOAOf(width, height, RDiv(height, R(2)), RDiv(RNeg(height), R(2)))

VOAInit == VOASized(Dec(7, 10), Dec(7, 10))

(***************************************************************************)
(* PM.__init__, MZM.__init__, IQM.__init__                                 *)
(***************************************************************************)
\* every subclass first does super().__init__(width=..., ...) and then,
\* unless that raised, the statements of its own body

\* the two lines at hi = height / 3.25 and lo = -height / 3.25
PMBody(self, width, hi, lo) ==
    IF self.raised # "none" THEN self
    ELSE SetColor(
           SetLabelAt(
               AppendSeg(
                   AppendSeg(self, Segment(<< <<R(0), hi>>, <<width, hi>> >>)),
                   Segment(<< <<R(0), lo>>, <<width, lo>> >>)),
               "PM", [loc |-> "center", ofst |-> <<R(0), Dec(-35, 1000)>>]),
           OPTcol)

PMInit(width, height, numN, numS, numE, numW) ==
    PMBody(RectangleInit(width, height, numN, numS, numE, numW, OPTfill),
           width, RDiv(height, Dec(325, 100)), RDiv(RNeg(height), Dec(325, 100)))

\* the lead-in from x to xa, the hexagon through xa, xb, xc, xd between the
\* heights dn and up, and the lead-out from out0 to out1
MzmDrawn(x, y, up, dn, xa, xb, xc, xd, out0, out1) ==
    << Segment(<< <<x, y>>, <<xa, y>> >>),
       SegmentPoly(<< <<xa, y>>, <<xb, up>>, <<xc, up>>, <<xd, y>>,
                      <<xc, dn>>, <<xb, dn>>, <<xa, y>> >>, "False"),
       Segment(<< <<out0, y>>, <<out1, y>> >>) >>

MzmDetachedFrom(x, y, a, cy, xa, xb, xc, xd) ==
    MzmDrawn(x, y, RAdd(y, cy), RSub(y, cy), xa, xb, xc, xd,
             RAdd(xd, a), RAdd(RAdd(xd, a), a))

\* _mzm with its lead-out drawn one lead length further on, detached from
\* the hexagon
MzmDetached(x, y, a, cx, cy, d) ==
    MzmDetachedFrom(x, y, a, cy, RAdd(x, a), RAdd(RAdd(x, a), cx),
                    RAdd(RAdd(RAdd(x, a), cx), d),
                    RAdd(RAdd(RAdd(RAdd(x, a), cx), d), cx))

\* xa = x + a, xb = x + a + cx, cx2 = 2 * cx, x2a = x + 2 * a
MzmFrom(x, y, cy, d, xa, xb, cx2, x2a) ==
    MzmDrawn(x, y, RAdd(y, cy), RSub(y, cy), xa, xb, RAdd(xb, d),
             RAdd(RAdd(xa, cx2), d), RAdd(RAdd(xa, cx2), d),
             RAdd(RAdd(x2a, cx2), d))

\* _mzm(x, y, a, cx, cy, d): lead-in, hexagon of the two arms, lead-out
Mzm(x, y, a, cx, cy, d) ==
    MzmFrom(x, y, cy, d, RAdd(x, a), RAdd(RAdd(x, a), cx), RMul(R(2), cx),
            RAdd(x, RMul(R(2), a)))

\* the statements of MZM.__init__ after super().__init__(...), with its
\* locals a, d, cx, cy
MZMBody(self, label, a, d, cx, cy) ==
    IF self.raised # "none" THEN self
    ELSE SetColor(
           SetLabelAt(ExtendSegs(self, Mzm(R(0), R(0), a, cx, cy, d)),
                      label, [loc |-> "center", ofst |-> <<R(0), Dec(-4, 100)>>]),
           OPTRFcol)

MZMInit(width, height, label, numN, numS, numE, numW) ==
    MZMBody(RectangleInit(width, height, numN, numS, numE, numW, OPTRFfill),
            label, Dec(15, 100), Dec(7, 10), Dec(3, 10), Dec(3, 10))

\* the segments IQM.__init__ adds, in their order; p = a + bx,
\* x3 = 3 * a + bx + 2 * cx + d, x4 = 3 * a + 2 * bx + 2 * cx + d,
\* x5 = 4 * a + 2 * bx + 2 * cx + d
IQMSegments(width, height, a, d, by, cx, cy, p, x3, x4, x5) ==
    << Segment(<< <<R(0), R(0)>>, <<a, R(0)>> >>),
       Segment(<< <<a, R(0)>>, <<p, by>> >>) >>
    \o Mzm(p, by, a, cx, cy, d)
    \o << Segment(<< <<x3, by>>, <<x4, R(0)>> >>),
          Segment(<< <<x4, R(0)>>, <<x5, R(0)>> >>),
          Segment(<< <<a, R(0)>>, <<p, RNeg(by)>> >>) >>
    \o Mzm(p, RNeg(by), a, cx, cy, d)
    \o << Segment(<< <<x3, RNeg(by)>>, <<x4, R(0)>> >>),
          SegmentText(<<RDiv(width, R(2)),
                        RSub(RDiv(height, R(4)), Dec(6, 100))>>, "I"),
          SegmentText(<<RDiv(width, R(2)),
                        RSub(RDiv(RNeg(height), R(4)), Dec(2, 100))>>, "Q") >>

\* bx2 = 2 * bx, cx2 = 2 * cx
IQMFrom(width, height, a, d, bx, by, cx, cy, bx2, cx2) ==
    IQMSegments(width, height, a, d, by, cx, cy, RAdd(a, bx),
                RAdd(RAdd(RAdd(RMul(R(3), a), bx), cx2), d),
                RAdd(RAdd(RAdd(RMul(R(3), a), bx2), cx2), d),
                RAdd(RAdd(RAdd(RMul(R(4), a), bx2), cx2), d))

\* the statements of IQM.__init__ after super().__init__(...), with its
\* locals a, d, bx, by, cx, cy
IQMBody(self, width, height, a, d, bx, by, cx, cy) ==
    IF self.raised # "none" THEN self
    ELSE SetColor(
           ExtendSegs(self, IQMFrom(width, height, a, d, bx, by, cx, cy,
                                    RMul(R(2), bx), RMul(R(2), cx))),
           OPTRFcol)

IQMInit(width, height, label, numN, numS, numE, numW) ==
    IQMBody(RectangleInit(width, height, numN, numS, numE, numW, OPTRFfill),
            width, height, Dec(15, 100), Dec(7, 10), Dec(3, 10), Dec(3, 10),
            Dec(3, 10), Dec(25, 100))

(***************************************************************************)
(* The instruments OSA, ESA, AWG, Scope: screen, knob, three buttons and a *)
(* trace on the screen.                                                    *)
(***************************************************************************)
\* the locals every instrument constructor sets for its screen
disp_x_offset == Dec(2, 10)
disp_y_offset == Dec(-35, 100)
disp_width == Dec(11, 10)
disp_height == Dec(7, 10)

\* the screen: a rounded rectangle from (x, y) over width w and height h
Screen(x, y, w, h) ==
    [kind |-> "SegmentPoly",
     verts |-> << <<x, RAdd(y, h)>>, <<RAdd(x, w), RAdd(y, h)>>,
                  <<RAdd(x, w), y>>, <<x, y>> >>,
     cornerradius |-> Dec(25, 100)]

\* one button between the corners (x0, y0) and (x1, y1)
ButtonDrawn(x0, x1, y0, y1) ==
    SegmentPoly(<< <<x0, y0>>, <<x1, y0>>, <<x1, y1>>, <<x0, y1>> >>, "False")

ButtonFrom(x0, x1, y0, button_height) ==
    ButtonDrawn(x0, x1, y0, RAdd(y0, button_height))

\* the buttons, for i in range(3)
Buttons(button_width, button_height, button_x_offset, button_y_offset, button_spacing) ==
    List([i \in 1 .. 3 |->
            ButtonFrom(button_x_offset, RAdd(button_x_offset, button_width),
                       RAdd(button_y_offset,
                            RMul(R(i - 1), RAdd(button_height, button_spacing))),
                       button_height)])

\* the screen, the large knob and the three buttons (the same statements in
\* OSA, ESA, AWG and Scope)
InstrumentPanel(self) ==
    ExtendSegs(
        AppendSeg(
            AppendSeg(self, Screen(disp_x_offset, disp_y_offset, disp_width,
                                   disp_height)),
            SegmentCircle(<<Dec(16, 10), Dec(35, 100)>>, Dec(1, 10), "False")),
        Buttons(Dec(1, 10), Dec(1, 10), Dec(155, 100), Dec(-5, 10), Dec(1, 10)))

\* the trace stretched over the full width of the screen
TraceXFullWidth(x, length) == RMul(RDiv(R(x), R(length)), disp_width)
\* x / length * 0.8 * disp_width
TraceX(x, length) == RMul(RMul(RDiv(R(x), R(length)), Dec(8, 10)), disp_width)

\* [(x + disp_x_offset + dx, y + disp_y_offset + dy) for x, y in path]
OntoScreen(path, dx, dy) ==
    List([k \in 1 .. Len(path) |->
            << RAdd(RAdd(path[k][1], disp_x_offset), dx),
               RAdd(RAdd(path[k][2], disp_y_offset), dy) >>])

\* OSA._make_spectrum.  The loop `for x in range(length)` is written as a
\* function of x and of the values `draws` that the calls of random.random()
\* return, in the order of the calls: the iteration for x makes the draw that
\* follows the draws of the iterations before it.
OSAInPeak(x, length) == (length \div 2) - 5 < x /\ x < (length \div 2) + 5

\* the number of the iterations 0 .. x-1 that lie in the peak around c,
\* c - 5 < j < c + 5
InPeakBefore(x, c) ==
    LET lo == IF c - 4 > 0 THEN c - 4 ELSE 0
        hi == IF x - 1 < c + 4 THEN x - 1 ELSE c + 4
    IN  IF hi < lo THEN 0 ELSE hi - lo + 1

\* the number of draws made by the iterations 0 .. x-1: one by each iteration
\* outside the peak
OSADrawsBefore(x, length) == x - InPeakBefore(x, length \div 2)

OSASample(x, length, draws) ==
    IF OSAInPeak(x, length)
    THEN RMul(RMul(Dec(8, 10), disp_height),
              RSub(R(1), RDiv(R(Abs(x - (length \div 2))), R(5))))
    ELSE RMul(RMul(Dec(2, 10), disp_height),
              RSub(draws[OSADrawsBefore(x, length) + 1], Dec(5, 10)))

\* the point of the OSA trace with its coordinates swapped
OSAPointSwapped(x, length, y) == << RMul(Dec(8, 10), y), TraceX(x, length) >>

\* (x / length * 0.8 * disp_width, 0.8 * y)
OSAPoint(x, length, y) == << TraceX(x, length), RMul(Dec(8, 10), y) >>

OSASpectrum(length, draws) ==
    List([k \in 1 .. length |->
            OSAPoint(k - 1, length, OSASample(k - 1, length, draws))])

\* path = _make_spectrum() and its shift onto the screen
OSATrace(draws) ==
    OntoScreen(OSASpectrum(150, draws), RMul(Dec(1, 10), disp_width), Dec(15, 100))

\* ESA._make_spectrum: peaks and amplitudes
ESAPeaks(length) == << length \div 4, length \div 2, (3 * length) \div 4 >>
ESAAmplitudes == << Dec(5, 10), Dec(7, 10), Dec(5, 10) >>

ESAInPeak(x, k, length) ==
    ESAPeaks(length)[k] - 5 < x /\ x < ESAPeaks(length)[k] + 5

\* the number of draws made before the inner iteration k of the outer
\* iteration x
ESADrawsBefore(x, k, length) ==
    (3 * x - InPeakBefore(x, ESAPeaks(length)[1]) - InPeakBefore(x, ESAPeaks(length)[2])
           - InPeakBefore(x, ESAPeaks(length)[3]))
    + Cardinality({j \in 1 .. (k - 1) : ~ESAInPeak(x, j, length)})

\* what the inner iteration k adds to y
ESATerm(x, k, length, draws) ==
    IF ESAInPeak(x, k, length)
    THEN RMul(RMul(ESAAmplitudes[k], disp_height),
              RSub(R(1), RDiv(R(Abs(x - ESAPeaks(length)[k])), R(5))))
    ELSE RMul(RMul(Dec(8, 100), disp_height),
              RSub(draws[ESADrawsBefore(x, k, length) + 1], Dec(5, 10)))

ESASample(x, length, draws) ==
    RAdd(RAdd(RAdd(R(0), ESATerm(x, 1, length, draws)), ESATerm(x, 2, length, draws)),
         ESATerm(x, 3, length, draws))

ESASpectrum(length, draws) ==
    List([k \in 1 .. length |->
        << TraceX(k - 1, length), RMul(Dec(9, 10), ESASample(k - 1, length, draws)) >>])

ESATrace(draws) ==
    OntoScreen(ESASpectrum(200, draws), RMul(Dec(1, 10), disp_width), Dec(15, 100))

\* y of AWG._make_sum_of_sines at x
AWGSample(x, length) ==
    RAdd(RAdd(RMul(RMul(Dec(2, 10), disp_height), Sin(RDiv(RMul(RMul(R(5), Pi), R(x)), R(length)))),
              RMul(RMul(Dec(2, 10), disp_height), Sin(RDiv(RMul(RMul(R(10), Pi), R(x)), R(length))))),
         RMul(RMul(Dec(4, 10), disp_height), Sin(RDiv(RMul(RMul(R(15), Pi), R(x)), R(length)))))

\* AWG._make_sum_of_sines: for x in range(length)
AWGSumOfSines(length) ==
    List([k \in 1 .. length |->
        << TraceX(k - 1, length), RMul(Dec(45, 100), AWGSample(k - 1, length)) >>])

AWGPath ==
    OntoScreen(AWGSumOfSines(500), RMul(Dec(1, 10), disp_width), RDiv(disp_height, Dec(21, 10)))

\* the statements of AWG.__init__ after super().__init__(...)
AWGBody(self) ==
    IF self.raised # "none" THEN self
    ELSE SetColor(AppendSeg(InstrumentPanel(self), SegmentPoly(AWGPath, "True")),
                  RFcol)

AWGInit(width, height, numN, numS, numE, numW) ==
    AWGBody(RectangleInit(width, height, numN, numS, numE, numW, RFfill))

\* Scope._make_noisy_sine(length=120): 0.5 * disp_height * math.sin(2 * math.pi
\* * x / length) for each x of the loop
ScopeWave ==
    List([k \in 1 .. 120 |->
        RMul(RMul(Dec(5, 10), disp_height),
             Sin(RDiv(RMul(RMul(R(2), Pi), R(k - 1)), R(120))))])

\* every iteration makes one draw
ScopeSample(x, draws) ==
    RAdd(ScopeWave[x + 1],
         RMul(RMul(Dec(3, 10), disp_height),
              RSub(draws[x + 1], Dec(5, 10))))

ScopeNoisySine(draws) ==
    List([k \in 1 .. 120 |->
        << TraceX(k - 1, 120), RMul(Dec(55, 100), ScopeSample(k - 1, draws)) >>])

ScopeTrace(draws) ==
    OntoScreen(ScopeNoisySine(draws), RMul(Dec(1, 10), disp_width), RDiv(disp_height, R(2)))

(***************************************************************************)
(* OSA.__init__, ESA.__init__, Scope.__init__: the constructors that draw  *)
(* random numbers.                                                         *)
(***************************************************************************)
\* the number of draws each of the three constructors makes
DrawCounts == {OSADrawsBefore(150, 150), ESADrawsBefore(200, 1, 200), 120}

\* the numbers of draws made by at most k such constructions
RECURSIVE Positions(_)
Positions(k) ==
    IF k = 0 THEN {0}
    ELSE Positions(k - 1) \cup {p + d : p \in Positions(k - 1), d \in DrawCounts}

\* the generator after random.seed(0)
Seeded0 == <<1, 0>>
\* the states of the generator when a session begins
RngInitial == {<<s, 0>> : s \in 1 .. Len(Generators)}
\* the states of the generator in which a drawing construction can be called:
\* a run that began with the seeded generator makes at most MaxDrawings of
\* them, a run that began with another one makes one
RngStates == {<<1, n>> : n \in Positions(MaxDrawings - 1)} \cup RngInitial

\* the trace for each state the generator can be in when the constructor is
\* called
OSAPath == [g \in RngStates |-> OSATrace(Draws(g, OSADrawsBefore(150, 150)))]

\* the statements of OSA.__init__ after super().__init__(...)
OSABody(self, g) ==
    IF self.raised # "none" THEN [rng |-> g] @@ self
    ELSE [rng |-> RngAfter(g, OSADrawsBefore(150, 150))] @@
            SetColor(AppendSeg(InstrumentPanel(self), Segment(OSAPath[g])), OPTcol)

OSAInit(width, height, numN, numS, numE, numW, g) ==
    OSABody(RectangleInit(width, height, numN, numS, numE, numW, OPTfill), g)

ESAPath == [g \in RngStates |-> ESATrace(Draws(g, ESADrawsBefore(200, 1, 200)))]

\* the statements of ESA.__init__ after super().__init__(...)
ESABody(self, g) ==
    IF self.raised # "none" THEN [rng |-> g] @@ self
    ELSE [rng |-> RngAfter(g, ESADrawsBefore(200, 1, 200))] @@
            SetColor(AppendSeg(InstrumentPanel(self), Segment(ESAPath[g])), RFcol)

ESAInit(width, height, numN, numS, numE, numW, g) ==
    ESABody(RectangleInit(width, height, numN, numS, numE, numW, RFfill), g)

ScopePath == [g \in RngStates |-> ScopeTrace(Draws(g, 120))]

\* the statements of Scope.__init__ after super().__init__(...)
ScopeBody(self, g) ==
    IF self.raised # "none" THEN [rng |-> g] @@ self
    ELSE [rng |-> RngAfter(g, 120)] @@
            AppendSeg(InstrumentPanel(self), Segment(ScopePath[g]))

ScopeInit(width, height, numN, numS, numE, numW, g) ==
    ScopeBody(RectangleInit(width, height, numN, numS, numE, numW, "white"), g)

(***************************************************************************)
(* OPM.__init__, PD.__init__, LD.__init__                                  *)
(***************************************************************************)
\* the statements of OPM.__init__ after super().__init__(...)
OPMBody(self, width) ==
    IF self.raised # "none" THEN self
    ELSE SetColor(
           SetLabelAt(
               AppendSeg(
                   AppendSeg(self,
                       With(SegmentArc(<<RDiv(width, R(2)), Dec(-1, 10)>>,
                                       Dec(95, 100), R(1), R(30), R(150)),
                            [fill |-> "False"])),
                   With(Segment(<< <<RDiv(width, R(2)), R(0)>>,
                                   <<Dec(7, 10), Dec(325, 1000)>> >>),
                        [arrow |-> "->", arrowlength |-> Dec(2, 10),
                         arrowwidth |-> Dec(15, 100)])),
               "OPM", [loc |-> "center", ofst |-> <<R(0), Dec(-275, 1000)>>]),
           OPTcol)

OPMInit(width, height, numN, numS, numE, numW, fillcol) ==
    OPMBody(RectangleInit(width, height, numN, numS, numE, numW, fillcol), width)

\* the PD decoration drawn first, under the border
PDDecoUnderBorder(s0, width, height) ==
    [s0 EXCEPT !.segments =
        << Segment(<< <<RDiv(width, R(2)), RDiv(RNeg(height), R(2))>>,
                      <<RDiv(width, R(2)),
                        RAdd(RDiv(RNeg(height), R(2)), Dec(3, 10))>> >>) >> \o @]

\* the lead, the triangle between base and tip, the bar and the second lead
PDDrawn(s0, bot, top, xl, xm, xr, base, tip) ==
    AppendSeg(
        AppendSeg(
            AppendSeg(
                AppendSeg(s0, Segment(<< <<xm, bot>>, <<xm, base>> >>)),
                SegmentPoly(<< <<xl, base>>, <<xm, tip>>, <<xr, base>> >>, "True")),
            Segment(<< <<xl, tip>>, <<xr, tip>> >>)),
        Segment(<< <<xm, tip>>, <<xm, top>> >>))

\* base = -height / 2 + 0.3, tip = height / 2 - 0.35
PDBetween(s0, bot, top, xl, xm, xr) ==
    PDDrawn(s0, bot, top, xl, xm, xr, RAdd(bot, Dec(3, 10)), RSub(top, Dec(35, 100)))

\* the statements of PD.__init__ after super().__init__
PDDeco(s0, width, height) ==
    PDBetween(s0, RDiv(RNeg(height), R(2)), RDiv(height, R(2)),
              RSub(RDiv(width, R(4)), Dec(5, 100)), RDiv(width, R(2)),
              RAdd(RDiv(RMul(R(3), width), R(4)), Dec(5, 100)))

PDBody(self, width, height) ==
    IF self.raised # "none" THEN self ELSE PDDeco(self, width, height)

PDInit(width, height, numN, numS, numE, numW) ==
    PDBody(RectangleInit(width, height, numN, numS, numE, numW, "white"),
           width, height)

\* one ray of the laser: an arrow moved by (x_ofst, y_ofst); h6 = height / 6
LDRay(x_ofst, y_ofst, h6) ==
    With(Segment(<< <<RAdd(R(0), x_ofst), RAdd(R(0), y_ofst)>>,
                    <<RAdd(h6, x_ofst), RAdd(h6, y_ofst)>> >>),
         [arrow |-> "->", arrowlength |-> Dec(15, 100),
          arrowwidth |-> Dec(9, 100), lw |-> Dec(115, 100)])

\* the lead, the triangle between base and tip, the bar, the second lead and
\* the two rays
LDDrawn(s0, h6, bot, top, xl, xm, xr, base, tip) ==
    SetColor(
        AppendSeg(
            AppendSeg(
                AppendSeg(
                    AppendSeg(
                        AppendSeg(
                            AppendSeg(s0, Segment(<< <<xm, RAdd(bot, Dec(1, 10))>>,
                                                     <<xm, base>> >>)),
                            SegmentPoly(<< <<xl, base>>, <<xm, tip>>, <<xr, base>> >>,
                                        "True")),
                        Segment(<< <<xl, tip>>, <<xr, tip>> >>)),
                    Segment(<< <<xm, tip>>, <<xm, RSub(top, Dec(25, 100))>> >>)),
                LDRay(Dec(62, 100), Dec(22, 100), h6)),
            LDRay(Dec(7, 10), Dec(15, 100), h6)),
        OPTcol)

\* base = -height / 2 + 0.25, tip = height / 2 - 0.45
LDBetween(s0, h6, bot, top, xl, xm, xr) ==
    LDDrawn(s0, h6, bot, top, xl, xm, xr, RAdd(bot, Dec(25, 100)),
            RSub(top, Dec(45, 100)))

\* the statements of LD.__init__ after super().__init__(...)
LDBody(self, width, height) ==
    IF self.raised # "none" THEN self
    ELSE LDBetween(self, RDiv(height, R(6)), RDiv(RNeg(height), R(2)),
                   RDiv(height, R(2)), RDiv(width, R(4)), RDiv(width, R(2)),
                   RDiv(RMul(R(3), width), R(4)))

LDInit(width, height, numN, numS, numE, numW) ==
    LDBody(RectangleInit(width, height, numN, numS, numE, numW, OPTfill),
           width, height)

(***************************************************************************)
(* The state machine: one action per constructor.                          *)
(***************************************************************************)
\* anchor counts a caller passes: the valid ones, zero and a negative one
Counts == (-1) .. MaxCount
\* widths and heights a caller passes: the degenerate 0 x 0, the default
\* 1 x 1, 2 x 1 and the 1.85 x 1.25 of the instruments
Sizes == { <<R(0), R(0)>>, <<R(1), R(1)>>, <<R(2), R(1)>>,
           <<Dec(185, 100), Dec(125, 100)>> }
FillCols == {"white", OPTcol}

NoArgs == [width |-> R(0), height |-> R(0), numN |-> 0, numS |-> 0,
           numE |-> 0, numW |-> 0, fillcol |-> ""]

\* the constructor returns (or raises): the caller sees the finished element
Return(self) ==
    /\ status' = (IF self.raised = "none" THEN "ok" ELSE self.raised)
    /\ segments' = self.segments
    /\ anchors' = self.anchors
    /\ elmparams' = self.elmparams
    /\ userparams' = self.userparams
    /\ supercall' = self.supercall

\* History variables.  `first` is the first construction of a session (its
\* call and what it returned); NoFirst: nothing constructed yet; Untracked:
\* no history is kept.  `drawers` is the set of classes whose constructor
\* has moved the generator since the session began.
NoFirst == [call |-> [cls |-> "none", args |-> NoArgs],
            status |-> "none", segments |-> <<>>, anchors |-> EmptyDict,
            elmparams |-> EmptyDict]
Untracked == [NoFirst EXCEPT !.status = "untracked"]

Remember ==
    /\ first' = IF first = NoFirst
                THEN [call |-> call', status |-> status', segments |-> segments',
                      anchors |-> anchors', elmparams |-> elmparams']
                ELSE first
    /\ drawers' = IF first # Untracked /\ rng' # rng
                  THEN drawers \cup {call'.cls}
                  ELSE drawers

\* no element in hand
Fresh ==
    /\ call = [cls |-> "none", args |-> NoArgs]
    /\ status = "none"
    /\ segments = <<>>
    /\ anchors = EmptyDict
    /\ elmparams = EmptyDict
    /\ userparams = EmptyDict
    /\ supercall = NoBase

Init ==
    /\ Fresh
    /\ rng = Seeded0
    /\ first = Untracked
    /\ drawers = {}

Rectangle(width, height, numN, numS, numE, numW, fillcol) ==
    /\ call' = [cls |-> "Rectangle",
                args |-> [width |-> width, height |-> height, numN |-> numN,
                          numS |-> numS, numE |-> numE, numW |-> numW,
                          fillcol |-> fillcol]]
    /\ Return(RectangleInit(width, height, numN, numS, numE, numW, fillcol))
    /\ rng' = rng
    /\ Remember

BS(width, height, numN, numS, numE, numW) ==
    /\ call' = [cls |-> "BS",
                args |-> [width |-> width, height |-> height, numN |-> numN,
                          numS |-> numS, numE |-> numE, numW |-> numW,
                          fillcol |-> OPTfill]]
    /\ Return(BSInit(width, height, numN, numS, numE, numW))
    /\ rng' = rng
    /\ Remember

MUX(numE, numW) ==
    /\ call' = [cls |-> "MUX",
                args |-> [NoArgs EXCEPT !.numE = numE, !.numW = numW]]
    /\ Return(MUXInit(numE, numW))
    /\ rng' = rng
    /\ Remember

\* the caller lets go of the element (or of the exception) it was handed
Discard ==
    /\ status # "none"
    /\ call' = [cls |-> "none", args |-> NoArgs]
    /\ status' = "none"
    /\ segments' = <<>>
    /\ anchors' = EmptyDict
    /\ elmparams' = EmptyDict
    /\ userparams' = EmptyDict
    /\ supercall' = NoBase
    /\ UNCHANGED <<rng, first, drawers>>

\* a caller that holds no element constructs one, with any arguments
NewRectangle ==
    /\ status = "none"
    /\ \E size \in Sizes, numN \in Counts, numS \in Counts,
          numE \in Counts, numW \in Counts, fillcol \in FillCols :
            Rectangle(size[1], size[2], numN, numS, numE, numW, fillcol)

NewBS ==
    /\ status = "none"
    /\ \E size \in Sizes, numN \in Counts, numS \in Counts,
          numE \in Counts, numW \in Counts :
            BS(size[1], size[2], numN, numS, numE, numW)

NewMUX ==
    /\ status = "none"
    /\ \E numE \in Counts, numW \in Counts : MUX(numE, numW)

Next ==
    \/ NewRectangle
    \/ NewBS
    \/ NewMUX
    \/ Discard

Spec == Init /\ [][Next]_vars

(***************************************************************************)
(* The other element classes of the library.                               *)
(***************************************************************************)
\* the constructor of a class that draws no random numbers returns
Built(c, self) ==
    /\ call' = c
    /\ Return(self)
    /\ rng' = rng
    /\ Remember

\* the constructor of an instrument with a random trace returns: the
\* generator has moved on by the draws made
BuiltDrawing(c, self) ==
    /\ call' = c
    /\ Return(self)
    /\ rng' = self.rng
    /\ Remember

RectArgs(width, height, numN, numS, numE, numW, fillcol) ==
    [width |-> width, height |-> height, numN |-> numN, numS |-> numS,
     numE |-> numE, numW |-> numW, fillcol |-> fillcol]

Bend90(radius) ==
    Built([cls |-> "Bend90", args |-> [radius |-> radius]], Bend90Init(radius))

Bend180(radius) ==
    Built([cls |-> "Bend180", args |-> [radius |-> radius]], Bend180Init(radius))

Termination ==
    /\ status = "none"
    /\ Built([cls |-> "Termination", args |-> NoArgs], TerminationInit)

FBG ==
    /\ status = "none"
    /\ Built([cls |-> "FBG", args |-> NoArgs], FBGInit)

Circulator ==
    /\ status = "none"
    /\ Built([cls |-> "Circulator", args |-> NoArgs], CirculatorInit)

CouplerDot ==
    /\ status = "none"
    /\ Built([cls |-> "CouplerDot",
           args |-> RectArgs(R(0), R(0), 1, 1, 1, 1, OPTcol)], CouplerDotInit)

CouplerCirc ==
    /\ status = "none"
    /\ Built([cls |-> "CouplerCirc", args |-> NoArgs], CouplerCircInit)

Fiber ==
    /\ status = "none"
    /\ Built([cls |-> "Fiber",
           args |-> RectArgs(Dec(11, 10), Dec(9, 10), 1, 1, 1, 1, OPTfill)],
          FiberInit)

PolCtrl ==
    /\ status = "none"
    /\ Built([cls |-> "PolCtrl", args |-> NoArgs], PolCtrlInit)

VOA ==
    /\ status = "none"
    /\ Built([cls |-> "VOA", args |-> NoArgs], VOAInit)

PM(width, height, numN, numS, numE, numW) ==
    Built([cls |-> "PM",
           args |-> RectArgs(width, height, numN, numS, numE, numW, OPTfill)],
          PMInit(width, height, numN, numS, numE, numW))

MZM(width, height, label, numN, numS, numE, numW) ==
    Built([cls |-> "MZM", label |-> label,
           args |-> RectArgs(width, height, numN, numS, numE, numW, OPTRFfill)],
          MZMInit(width, height, label, numN, numS, numE, numW))

IQM(width, height, label, numN, numS, numE, numW) ==
    Built([cls |-> "IQM", label |-> label,
           args |-> RectArgs(width, height, numN, numS, numE, numW, OPTRFfill)],
          IQMInit(width, height, label, numN, numS, numE, numW))

OSA(width, height, numN, numS, numE, numW) ==
    BuiltDrawing([cls |-> "OSA",
                  args |-> RectArgs(width, height, numN, numS, numE, numW, OPTfill)],
                 OSAInit(width, height, numN, numS, numE, numW, rng))

ESA(width, height, numN, numS, numE, numW) ==
    BuiltDrawing([cls |-> "ESA",
                  args |-> RectArgs(width, height, numN, numS, numE, numW, RFfill)],
                 ESAInit(width, height, numN, numS, numE, numW, rng))

AWG(width, height, numN, numS, numE, numW) ==
    Built([cls |-> "AWG",
           args |-> RectArgs(width, height, numN, numS, numE, numW, RFfill)],
          AWGInit(width, height, numN, numS, numE, numW))

Scope(width, height, numN, numS, numE, numW) ==
    BuiltDrawing([cls |-> "Scope",
                  args |-> RectArgs(width, height, numN, numS, numE, numW, "white")],
                 ScopeInit(width, height, numN, numS, numE, numW, rng))

OPM(width, height, numN, numS, numE, numW, fillcol) ==
    Built([cls |-> "OPM",
           args |-> RectArgs(width, height, numN, numS, numE, numW, fillcol)],
          OPMInit(width, height, numN, numS, numE, numW, fillcol))

PD(width, height, numN, numS, numE, numW) ==
    Built([cls |-> "PD",
           args |-> RectArgs(width, height, numN, numS, numE, numW, "white")],
          PDInit(width, height, numN, numS, numE, numW))

LD(width, height, numN, numS, numE, numW) ==
    Built([cls |-> "LD",
           args |-> RectArgs(width, height, numN, numS, numE, numW, OPTfill)],
          LDInit(width, height, numN, numS, numE, numW))

(***************************************************************************)
(* The library: every class, constructed by a caller that holds no         *)
(* element, with arguments from small sets.  An instrument with a random   *)
(* trace is constructed here while the generator is in its initial state;  *)
(* constructions from the states that earlier drawings leave are part of   *)
(* the session below.                                                      *)
(***************************************************************************)
MaxLibCount == 2

\* radii of the bends: 1/2, 1 (the default), 2
Radii == {Dec(1, 2), R(1), R(2)}
\* counts: the valid ones up to MaxLibCount
LibCounts == 1 .. MaxLibCount
\* widths and heights: 1 x 1 and 1.5 x 1
LibSizes == { <<R(1), R(1)>>, <<Dec(15, 10), R(1)>> }
Labels == {"MZM", "IQM"}

\* calls of Filter, each <<args, kwargs>>: without arguments, with the
\* response and a fill by keyword, with the response by position and a color
FilterCalls ==
    { << <<>>, EmptyDict >>,
      << <<>>, [response |-> "bp", fill |-> "red"] >>,
      << <<"hp">>, [color |-> "blue"] >> }

\* sdcomms.Filter(*args, **kwargs)
Filter(args, kwargs) ==
    Built([cls |-> "Filter", args |-> [args |-> args, kwargs |-> kwargs]],
          FilterInit(args, kwargs))

\* Filter(*args, **kwargs) of src/comms/dsp_wrappers.py
CommsFilter(args, kwargs) ==
    Built([cls |-> "comms.Filter", args |-> [args |-> args, kwargs |-> kwargs]],
          CommsFilterInit(args, kwargs))

NewFilter == status = "none" /\ \E c \in FilterCalls : Filter(c[1], c[2])

NewCommsFilter == status = "none" /\ \E c \in FilterCalls : CommsFilter(c[1], c[2])

NewBend90 == status = "none" /\ \E radius \in Radii : Bend90(radius)
NewBend180 == status = "none" /\ \E radius \in Radii : Bend180(radius)

LibMUX ==
    /\ status = "none"
    /\ \E numE \in LibCounts, numW \in LibCounts : MUX(numE, numW)

NextLib ==
    \/ NewBend90
    \/ NewBend180
    \/ /\ status = "none"
       /\ \E size \in LibSizes, numN \in LibCounts,
             numS \in LibCounts, numE \in LibCounts, numW \in LibCounts :
               Rectangle(size[1], size[2], numN, numS, numE, numW, "white")
    \/ Termination
    \/ FBG
    \/ LibMUX
    \/ Circulator
    \/ /\ status = "none"
       /\ \E size \in LibSizes, numN \in LibCounts,
             numS \in LibCounts, numE \in LibCounts, numW \in LibCounts :
               BS(size[1], size[2], numN, numS, numE, numW)
    \/ CouplerDot
    \/ CouplerCirc
    \/ Fiber
    \/ PolCtrl
    \/ VOA
    \/ /\ status = "none"
       /\ \E size \in LibSizes, numN \in LibCounts,
             numS \in LibCounts, numE \in LibCounts, numW \in LibCounts :
               PM(size[1], size[2], numN, numS, numE, numW)
    \/ /\ status = "none"
       /\ \E size \in LibSizes, label \in Labels,
             numN \in LibCounts, numS \in LibCounts, numE \in LibCounts,
             numW \in LibCounts :
               MZM(size[1], size[2], label, numN, numS, numE, numW)
    \/ /\ status = "none"
       /\ \E size \in LibSizes, label \in Labels,
             numN \in LibCounts, numS \in LibCounts, numE \in LibCounts,
             numW \in LibCounts :
               IQM(size[1], size[2], label, numN, numS, numE, numW)
    \/ /\ status = "none"
       /\ rng \in RngInitial
       /\ \E size \in LibSizes, numN \in LibCounts,
             numS \in LibCounts, numE \in LibCounts, numW \in LibCounts :
               OSA(size[1], size[2], numN, numS, numE, numW)
    \/ /\ status = "none"
       /\ rng \in RngInitial
       /\ \E size \in LibSizes, numN \in LibCounts,
             numS \in LibCounts, numE \in LibCounts, numW \in LibCounts :
               ESA(size[1], size[2], numN, numS, numE, numW)
    \/ /\ status = "none"
       /\ \E size \in LibSizes, numN \in LibCounts,
             numS \in LibCounts, numE \in LibCounts, numW \in LibCounts :
               AWG(size[1], size[2], numN, numS, numE, numW)
    \/ /\ status = "none"
       /\ rng \in RngInitial
       /\ \E size \in LibSizes, numN \in LibCounts,
             numS \in LibCounts, numE \in LibCounts, numW \in LibCounts :
               Scope(size[1], size[2], numN, numS, numE, numW)
    \/ /\ status = "none"
       /\ \E size \in LibSizes, numN \in LibCounts,
             numS \in LibCounts, numE \in LibCounts, numW \in LibCounts,
             fillcol \in FillCols :
               OPM(size[1], size[2], numN, numS, numE, numW, fillcol)
    \/ /\ status = "none"
       /\ \E size \in LibSizes, numN \in LibCounts,
             numS \in LibCounts, numE \in LibCounts, numW \in LibCounts :
               PD(size[1], size[2], numN, numS, numE, numW)
    \/ /\ status = "none"
       /\ \E size \in LibSizes, numN \in LibCounts,
             numS \in LibCounts, numE \in LibCounts, numW \in LibCounts :
               LD(size[1], size[2], numN, numS, numE, numW)
    \/ NewFilter
    \/ NewCommsFilter
    \/ Discard

SpecLib == Init /\ [][NextLib]_vars

(***************************************************************************)
(* A session: a program constructs elements one after another, each with   *)
(* the default arguments of its class (the bends with any radius, the MUX  *)
(* with any counts), from any state of the generator; the first            *)
(* construction is remembered.                                             *)
(***************************************************************************)
InitSession ==
    /\ Fresh
    /\ rng \in RngInitial
    /\ first = NoFirst
    /\ drawers = {}

\* the default arguments of the classes with size and count parameters
DefaultArgs ==
    [Rectangle |-> RectArgs(R(1), R(1), 1, 1, 1, 1, "white"),
     BS        |-> RectArgs(Dec(6, 10), Dec(6, 10), 1, 1, 1, 1, OPTfill),
     PM        |-> RectArgs(R(1), Dec(7, 10), 1, 1, 1, 1, OPTfill),
     MZM       |-> RectArgs(Dec(16, 10), R(1), 1, 1, 1, 1, OPTRFfill),
     IQM       |-> RectArgs(Dec(25, 10), Dec(13, 10), 1, 1, 1, 1, OPTRFfill),
     OSA       |-> RectArgs(Dec(185, 100), Dec(125, 100), 1, 1, 1, 1, OPTfill),
     ESA       |-> RectArgs(Dec(185, 100), Dec(125, 100), 1, 1, 1, 1, RFfill),
     AWG       |-> RectArgs(Dec(185, 100), Dec(125, 100), 1, 1, 1, 1, RFfill),
     Scope     |-> RectArgs(Dec(185, 100), Dec(125, 100), 1, 1, 1, 1, "white"),
     OPM       |-> RectArgs(R(1), R(1), 1, 1, 1, 1, OPTfill),
     PD        |-> RectArgs(R(1), R(1), 1, 1, 1, 1, "white"),
     LD        |-> RectArgs(R(1), R(1), 1, 1, 1, 1, OPTfill)]

\* the call of class c with its default arguments a
DefaultCall(c, a) ==
    IF c \in {"MZM", "IQM"}
    THEN [cls |-> c, label |-> c, args |-> a]
    ELSE [cls |-> c, args |-> a]

\* what the constructor of class c does with arguments a; g is the state of
\* the generator
Construct(c, label, a, g) ==
    CASE c = "Rectangle" ->
            RectangleInit(a.width, a.height, a.numN, a.numS, a.numE, a.numW, a.fillcol)
      [] c = "BS"    -> BSInit(a.width, a.height, a.numN, a.numS, a.numE, a.numW)
      [] c = "PM"    -> PMInit(a.width, a.height, a.numN, a.numS, a.numE, a.numW)
      [] c = "MZM"   -> MZMInit(a.width, a.height, label, a.numN, a.numS, a.numE, a.numW)
      [] c = "IQM"   -> IQMInit(a.width, a.height, label, a.numN, a.numS, a.numE, a.numW)
      [] c = "OSA"   -> OSAInit(a.width, a.height, a.numN, a.numS, a.numE, a.numW, g)
      [] c = "ESA"   -> ESAInit(a.width, a.height, a.numN, a.numS, a.numE, a.numW, g)
      [] c = "AWG"   -> AWGInit(a.width, a.height, a.numN, a.numS, a.numE, a.numW)
      [] c = "Scope" -> ScopeInit(a.width, a.height, a.numN, a.numS, a.numE, a.numW, g)
      [] c = "OPM"   ->
            OPMInit(a.width, a.height, a.numN, a.numS, a.numE, a.numW, a.fillcol)
      [] c = "PD"    -> PDInit(a.width, a.height, a.numN, a.numS, a.numE, a.numW)
      [] c = "LD"    -> LDInit(a.width, a.height, a.numN, a.numS, a.numE, a.numW)

\* the classes whose constructor draws random numbers
Drawing == {"OSA", "ESA", "Scope"}

\* what is kept of the elements made from the states of the generator: for
\* a drawing class the element of each state, for another class the element
DefaultMade(c, made) == IF c \in Drawing THEN made ELSE made[Seeded0]

\* the element each class returns for the default arguments args
DefaultOf(args) ==
    [c \in DOMAIN args |->
        DefaultMade(c, [g \in (IF c \in Drawing THEN RngStates ELSE {Seeded0}) |->
                            Construct(c, c, args[c], g)])]

\* the element each class returns for its default arguments, for the
\* drawing classes from each state of the generator
Default == DefaultOf(DefaultArgs)

\* a class that draws no random numbers is called with its default
\* arguments a and returns self
NewDefault(c, a, self) == status = "none" /\ Built(DefaultCall(c, a), self)

\* a class that draws random numbers is called with its default arguments a
\* and returns made[rng]
NewDrawing(c, a, made) ==
    /\ status = "none"
    /\ rng \in RngStates
    /\ BuiltDrawing(DefaultCall(c, a), made[rng])

\* the steps of a session, one per class that sdcomms exports from comms.py
\* and dsp_wrappers.py; args are the default arguments of the classes with
\* size and count parameters and made the elements they return for them
Session(args, made) ==
    \/ NewBend90
    \/ NewBend180
    \/ NewDefault("Rectangle", args.Rectangle, made.Rectangle)
    \/ Termination
    \/ FBG
    \/ LibMUX
    \/ Circulator
    \/ NewDefault("BS", args.BS, made.BS)
    \/ CouplerDot
    \/ CouplerCirc
    \/ Fiber
    \/ PolCtrl
    \/ VOA
    \/ NewDefault("PM", args.PM, made.PM)
    \/ NewDefault("MZM", args.MZM, made.MZM)
    \/ NewDefault("IQM", args.IQM, made.IQM)
    \/ NewDrawing("OSA", args.OSA, made.OSA)
    \/ NewDrawing("ESA", args.ESA, made.ESA)
    \/ NewDefault("AWG", args.AWG, made.AWG)
    \/ NewDrawing("Scope", args.Scope, made.Scope)
    \/ NewDefault("OPM", args.OPM, made.OPM)
    \/ NewDefault("PD", args.PD, made.PD)
    \/ NewDefault("LD", args.LD, made.LD)
    \/ NewFilter
    \/ Discard

NextSession == Session(DefaultArgs, Default)

SpecSession == InitSession /\ [][NextSession]_vars

(***************************************************************************)
(* Vocabulary of the properties.                                           *)
(***************************************************************************)
A == call.args

\* a Rectangle was asked for and returned
RectDone == call.cls = "Rectangle" /\ status = "ok"
\* a Rectangle or an element derived from it was asked for and returned
RectLikeDone == call.cls \in {"Rectangle", "BS"} /\ status = "ok"

\* order of two numbers: the difference of two floats is zero only when they
\* are equal
RLt(a, b) == RSub(b, a)[1] > 0
RLe(a, b) == RSub(b, a)[1] >= 0

RAbs(a) == IF a[1] < 0 THEN RNeg(a) ELSE a

\* 2^-50: what the roundings of a few operations on numbers of size 1 add up to
Rounding == RMul(Dec(1, 2^25), Dec(1, 2^25))

\* a and b differ by no more than the roundings of a few operations on
\* numbers of size L
Near(a, b, L) == RLe(RAbs(RSub(a, b)), RMul(Rounding, RAbs(L)))

ValidCounts == A.numN >= 1 /\ A.numS >= 1 /\ A.numE >= 1 /\ A.numW >= 1
PositiveSize == RLt(R(0), A.width) /\ RLt(R(0), A.height)

Half(x) == RDiv(x, R(2))

\* (i+1)*L/(n+1)
Along(i, L, n) == RDiv(RMul(R(i + 1), L), R(n + 1))
\* (i+1)*L/(n+1) - L/2
Across(i, L, n) == RSub(Along(i, L, n), Half(L))

\* p lies on the outline of the rectangle [0, w] x [-h/2, +h/2]
OnOutline(p, w, h) ==
    \/ /\ p[1] = R(0) \/ p[1] = w
       /\ RLe(Half(RNeg(h)), p[2]) /\ RLe(p[2], Half(h))
    \/ /\ p[2] = Half(h) \/ p[2] = Half(RNeg(h))
       /\ RLe(R(0), p[1]) /\ RLe(p[1], w)

\* the names an edge with count n is documented to carry
EdgeNames(prefix, n) == {FStr(prefix, i) : i \in 0 .. (n - 1)}

(***************************************************************************)
(* C1: anchor spacing law of Rectangle.  For all widths, heights and       *)
(* counts >= 1, N{i} = ((i+1)*width/(numN+1), +height/2),                  *)
(* S{i} = ((i+1)*width/(numS+1), -height/2),                               *)
(* E{i} = (width, (i+1)*height/(numE+1) - height/2) and                    *)
(* W{i} = (0, (i+1)*height/(numW+1) - height/2), each expression taken     *)
(* with the operations of the program's numbers; one anchor is the edge    *)
(* midpoint (width/2, resp. y = 0), three anchors are the quarter points   *)
(* width/4, width/2, 3*width/4.                                            *)
(***************************************************************************)
ThmC1_AnchorSpacingLaw ==
    (RectDone /\ ValidCounts) =>
        /\ \A i \in 0 .. (A.numN - 1) :
              /\ FStr("N", i) \in DOMAIN anchors
              /\ anchors[FStr("N", i)] = <<Along(i, A.width, A.numN), Half(A.height)>>
        /\ \A i \in 0 .. (A.numS - 1) :
              /\ FStr("S", i) \in DOMAIN anchors
              /\ anchors[FStr("S", i)]
                     = <<Along(i, A.width, A.numS), Half(RNeg(A.height))>>
        /\ \A i \in 0 .. (A.numE - 1) :
              /\ FStr("E", i) \in DOMAIN anchors
              /\ anchors[FStr("E", i)] = <<A.width, Across(i, A.height, A.numE)>>
        /\ \A i \in 0 .. (A.numW - 1) :
              /\ FStr("W", i) \in DOMAIN anchors
              /\ anchors[FStr("W", i)] = <<R(0), Across(i, A.height, A.numW)>>
        /\ A.numN = 1 => anchors["N0"][1] = Half(A.width)
        /\ A.numE = 1 => anchors["E0"][2] = R(0)
        /\ A.numN = 3 =>
              /\ anchors["N0"][1] = RDiv(A.width, R(4))
              /\ anchors["N1"][1] = Half(A.width)
              /\ anchors["N2"][1] = RDiv(RMul(R(3), A.width), R(4))
        /\ A.numW = 3 =>
              /\ anchors["W0"][2] = RSub(RDiv(A.height, R(4)), Half(A.height))
              /\ anchors["W1"][2] = R(0)
              /\ anchors["W2"][2]
                     = RSub(RDiv(RMul(R(3), A.height), R(4)), Half(A.height))

\* Rectangle(width=2, height=1, numN=3, numS=2): the quarter points 1/2, 1,
\* 3/2 on the North edge, the float next to 2/3 on the South edge
WitC1_QuarterPoints ==
    /\ RectDone /\ ValidCounts
    /\ A.width = R(2) /\ A.height = R(1) /\ A.numN = 3 /\ A.numS = 2 /\ A.numE = 1
    /\ anchors["N0"] = <<Dec(1, 2), Dec(1, 2)>>
    /\ anchors["N1"] = <<R(1), Dec(1, 2)>>
    /\ anchors["N2"] = <<Dec(3, 2), Dec(1, 2)>>
    /\ anchors["S0"] = <<Dec(2, 3), Dec(-1, 2)>>
    /\ anchors["E0"] = <<R(2), R(0)>>

(***************************************************************************)
(* C2: for width, height > 0 and counts >= 1 every anchor of a Rectangle   *)
(* lies exactly on one of the four edges of the border polygon.            *)
(***************************************************************************)
ThmC2_AnchorsOnOutline ==
    (RectDone /\ ValidCounts /\ PositiveSize) =>
        \A name \in DOMAIN anchors : OnOutline(anchors[name], A.width, A.height)

\* Rectangle(width=1.85, height=1.25, numE=2, numN=2): E1 on the right edge
\* above the axis, N0 on the top edge
WitC2_OnOutline ==
    /\ RectDone /\ ValidCounts /\ PositiveSize
    /\ A.width = Dec(185, 100) /\ A.height = Dec(125, 100)
    /\ A.numE = 2 /\ A.numN = 2
    /\ anchors["E1"][1] = Dec(185, 100)
    /\ RLt(R(0), anchors["E1"][2]) /\ RLt(anchors["E1"][2], Dec(625, 1000))
    /\ anchors["N0"][2] = Dec(625, 1000)
    /\ RLt(R(0), anchors["N0"][1]) /\ RLt(anchors["N0"][1], Dec(185, 100))

(***************************************************************************)
(* C3: the border of a Rectangle is a single filled polygon of exactly 5   *)
(* vertices, closed (first = last), with corners (0,-height/2),            *)
(* (width,-height/2), (width,+height/2), (0,+height/2).                    *)
(***************************************************************************)
ThmC3_ClosedBorder ==
    (RectDone /\ ValidCounts) =>
        /\ Len(segments) = 1
        /\ segments[1].kind = "SegmentPoly"
        /\ segments[1].fill = A.fillcol
        /\ Len(segments[1].verts) = 5
        /\ segments[1].verts[1] = segments[1].verts[5]
        /\ LET v == segments[1].verts
           IN  /\ v[1] = <<R(0), Half(RNeg(A.height))>>
               /\ v[2] = <<A.width, Half(RNeg(A.height))>>
               /\ v[3] = <<A.width, Half(A.height)>>
               /\ v[4] = <<R(0), Half(A.height)>>

\* Rectangle(width=2, height=1): the corner (2, 1/2) and the closing vertex
WitC3_Border ==
    /\ RectDone /\ ValidCounts
    /\ A.width = R(2) /\ A.height = R(1)
    /\ segments[1].verts[3] = <<R(2), Dec(1, 2)>>
    /\ segments[1].verts[5] = <<R(0), Dec(-1, 2)>>

(***************************************************************************)
(* C4: for a Rectangle and for an element derived from it, built with      *)
(* numE >= 1, the drop point is the coordinate of anchor E{numE-1},        *)
(* whatever the width, height and other counts are.                        *)
(***************************************************************************)
ThmC4_DropIsLastEast ==
    (RectLikeDone /\ A.numE >= 1) =>
        /\ "drop" \in DOMAIN elmparams
        /\ FStr("E", A.numE - 1) \in DOMAIN anchors
        /\ elmparams["drop"] = anchors[FStr("E", A.numE - 1)]
        /\ elmparams["drop"] = <<A.width, Across(A.numE - 1, A.height, A.numE)>>

\* BS(width=2, height=1, numE=3, numN=0): drop = E2 = (2, 1/4)
WitC4_DropOfDerived ==
    /\ call.cls = "BS" /\ status = "ok"
    /\ A.width = R(2) /\ A.height = R(1) /\ A.numE = 3 /\ A.numN = 0
    /\ elmparams["drop"] = <<R(2), Dec(1, 4)>>
    /\ anchors["E2"] = <<R(2), Dec(1, 4)>>
    /\ anchors["E0"] = <<R(2), Dec(-1, 4)>>

(***************************************************************************)
(* C5: the anchor map of a Rectangle with counts >= 1 holds exactly the    *)
(* names N0..N{numN-1}, S0..S{numS-1}, E0..E{numE-1}, W0..W{numW-1}:       *)
(* numN+numS+numE+numW entries, every index once per edge.                 *)
(***************************************************************************)
ThmC5_AnchorNames ==
    (RectDone /\ ValidCounts) =>
        /\ DOMAIN anchors = EdgeNames("N", A.numN) \cup EdgeNames("S", A.numS)
                              \cup EdgeNames("E", A.numE) \cup EdgeNames("W", A.numW)
        /\ Cardinality(DOMAIN anchors) = A.numN + A.numS + A.numE + A.numW
        /\ \A prefix \in {"N", "S", "E", "W"} : FStr(prefix, 0) \in DOMAIN anchors

\* Rectangle(numN=2, numS=1, numE=3, numW=1)
WitC5_Names ==
    /\ RectDone
    /\ A.numN = 2 /\ A.numS = 1 /\ A.numE = 3 /\ A.numW = 1
    /\ DOMAIN anchors = {"N0", "N1", "S0", "E0", "E1", "E2", "W0"}

\* the coordinate along the edge of the anchors of one edge, between the
\* coordinates lo and hi of its two corners: c[1] = lo, c[i + 2] that of
\* anchor i, c[n + 2] = hi
Cuts(prefix, axis, n, lo, hi) ==
    <<lo>> \o [i \in 1 .. n |-> anchors[FStr(prefix, i - 1)][axis]] \o <<hi>>

(***************************************************************************)
(* C6, as claimed: for width, height > 0 and n >= 1 anchors on an edge of  *)
(* length L, the distance from each corner to its nearest anchor and the   *)
(* distance between every two consecutive anchors are all exactly L/(n+1). *)
(***************************************************************************)
EvenlyCut(prefix, axis, n, lo, hi, L) ==
    LET c == Cuts(prefix, axis, n, lo, hi)
    IN  \A k \in 1 .. (n + 1) : RSub(c[k + 1], c[k]) = RDiv(L, R(n + 1))

CexC6_PartsExactlyEqual ==
    (RectDone /\ ValidCounts /\ PositiveSize) =>
        /\ EvenlyCut("N", 1, A.numN, R(0), A.width, A.width)
        /\ EvenlyCut("S", 1, A.numS, R(0), A.width, A.width)
        /\ EvenlyCut("E", 2, A.numE, Half(RNeg(A.height)), Half(A.height), A.height)
        /\ EvenlyCut("W", 2, A.numW, Half(RNeg(A.height)), Half(A.height), A.height)

(***************************************************************************)
(* C6, amended: for width, height > 0 and n >= 1 anchors on an edge of     *)
(* length L, the anchors exclude both corners, follow one another along    *)
(* the edge in the order of their indices, so that they are pairwise       *)
(* distinct, and cut the edge into n+1 parts that equal L/(n+1) up to the  *)
(* rounding of the float operations: each part differs from L/(n+1) by at  *)
(* most 2^-50 * L.                                                         *)
(***************************************************************************)
NearlyEvenlyCut(prefix, axis, n, lo, hi, L) ==
    LET c == Cuts(prefix, axis, n, lo, hi)
    IN  /\ \A k \in 1 .. (n + 1) :
              /\ RLt(c[k], c[k + 1])
              /\ Near(RSub(c[k + 1], c[k]), RDiv(L, R(n + 1)), L)
        /\ \A i, j \in 0 .. (n - 1) :
              i # j => anchors[FStr(prefix, i)] # anchors[FStr(prefix, j)]

ThmC6_NearlyEqualParts ==
    (RectDone /\ ValidCounts /\ PositiveSize) =>
        /\ NearlyEvenlyCut("N", 1, A.numN, R(0), A.width, A.width)
        /\ NearlyEvenlyCut("S", 1, A.numS, R(0), A.width, A.width)
        /\ NearlyEvenlyCut("E", 2, A.numE, Half(RNeg(A.height)), Half(A.height),
                           A.height)
        /\ NearlyEvenlyCut("W", 2, A.numW, Half(RNeg(A.height)), Half(A.height),
                           A.height)

\* Rectangle(width=1, height=1, numS=2, numW=3): the part from S1 to the
\* corner is not the float 1/3 and differs from it by less than 2^-52; the
\* West edge is cut into exact quarters
WitC6_ThirdsOnSouth ==
    /\ RectDone /\ ValidCounts /\ PositiveSize
    /\ A.width = R(1) /\ A.height = R(1) /\ A.numS = 2 /\ A.numW = 3
    /\ RSub(R(1), anchors["S1"][1]) # Dec(1, 3)
    /\ Near(RSub(R(1), anchors["S1"][1]), Dec(1, 3), Dec(1, 4))
    /\ anchors["W0"][2] = Dec(-1, 4)
    /\ anchors["W1"][2] = R(0)
    /\ anchors["W2"][2] = Dec(1, 4)

(***************************************************************************)
(* C7: side-edge anchors of a Rectangle run from top to bottom: for        *)
(* height > 0 the y coordinate of E{i} (of W{i}) strictly decreases as i   *)
(* grows, the North edge y = +height/2 being the top.  Stated for the      *)
(* well-formed calls only (positive size, counts >= 1).                    *)
(***************************************************************************)
CexC7_SidesTopToBottom ==
    (RectDone /\ ValidCounts /\ PositiveSize) =>
        /\ \A i \in 0 .. (A.numE - 2) :
              RLt(anchors[FStr("E", i + 1)][2], anchors[FStr("E", i)][2])
        /\ \A i \in 0 .. (A.numW - 2) :
              RLt(anchors[FStr("W", i + 1)][2], anchors[FStr("W", i)][2])

(***************************************************************************)
(* C8: the drop point of a Rectangle is the bottom-most East anchor: for   *)
(* height > 0 and numE >= 1 its y is at most the y of every E{i}.  Stated  *)
(* for the well-formed calls only (positive size, counts >= 1).            *)
(***************************************************************************)
CexC8_DropIsBottomMost ==
    (RectDone /\ ValidCounts /\ PositiveSize) =>
        \A i \in 0 .. (A.numE - 1) :
            RLe(elmparams["drop"][2], anchors[FStr("E", i)][2])

(***************************************************************************)
(* C9: a Rectangle, an element derived from Rectangle, or a MUX built with *)
(* numE = 0 fails at the drop-point lookup: the constructor raises and no  *)
(* element is returned, whatever the other arguments are.                  *)
(***************************************************************************)
ThmC9_ZeroEastFails ==
    (call.cls \in {"Rectangle", "BS", "MUX"} /\ A.numE = 0) =>
        /\ status = "KeyError"
        /\ segments = <<>>
        /\ anchors = EmptyDict
        /\ elmparams = EmptyDict

\* MUX(numE=0, numW=2) raised
WitC9_MuxRaised ==
    /\ call.cls = "MUX" /\ A.numE = 0 /\ A.numW = 2
    /\ status = "KeyError"

(***************************************************************************)
(* C10, as claimed: every anchor count below 1 makes Rectangle's           *)
(* constructor fail, so no Rectangle is returned that lacks anchors on one *)
(* of its four edges.  Stated for calls with a positive size.              *)
(***************************************************************************)
CexC10_InvalidCountsRejected ==
    (call.cls = "Rectangle" /\ PositiveSize) =>
        /\ ~ValidCounts => status # "ok"
        /\ status = "ok" =>
              \A prefix \in {"N", "S", "E", "W"} :
                  \E i \in 0 .. MaxCount : FStr(prefix, i) \in DOMAIN anchors

(***************************************************************************)
(* C10, amended: only the East count is checked, and only by the           *)
(* drop-point lookup.  Rectangle's constructor fails (KeyError) exactly    *)
(* when numE < 1; with numE >= 1 it returns whatever numN, numS and numW   *)
(* are, and an edge whose count is below 1 carries no anchor.              *)
(***************************************************************************)
ThmC10_OnlyEastCountRejected ==
    call.cls = "Rectangle" =>
        IF A.numE < 1
        THEN status = "KeyError"
        ELSE /\ status = "ok"
             /\ DOMAIN anchors = EdgeNames("N", A.numN) \cup EdgeNames("S", A.numS)
                                   \cup EdgeNames("E", A.numE) \cup EdgeNames("W", A.numW)

\* Rectangle(numN=0, numS=1, numE=1, numW=-1) is returned without N and W anchors
WitC10_ReturnedWithoutNorth ==
    /\ RectDone
    /\ A.numN = 0 /\ A.numS = 1 /\ A.numE = 1 /\ A.numW = -1
    /\ DOMAIN anchors = {"S0", "E0"}

(***************************************************************************)
(* Vocabulary of the properties about the other classes.                   *)
(***************************************************************************)
\* an element of class c was asked for and returned
Done(c) == call.cls = c /\ status = "ok"

Origin == <<R(0), R(0)>>

\* the point of an arc at the angle theta, a multiple of 90 degrees: where
\* the arc crosses the axis through its centre
ArcEnd(arc, theta) ==
    CASE theta = R(0) ->
            <<RAdd(arc.center[1], Half(arc.width)), arc.center[2]>>
      [] theta = R(90) ->
            <<arc.center[1], RAdd(arc.center[2], Half(arc.height))>>
      [] theta = R(180) ->
            <<RSub(arc.center[1], Half(arc.width)), arc.center[2]>>

HasDrop == "drop" \in DOMAIN elmparams
Drop == elmparams["drop"]

\* the classes whose constructor draws random numbers
RandomClasses == {"OSA", "ESA", "Scope"}

\* the classes of the dsp_wrappers.py files: they draw nothing themselves
WrapperClasses == {"Filter", "comms.Filter"}

\* the Rectangle-derived classes with size and count parameters
DecoratedClasses ==
    {"BS", "PM", "MZM", "IQM", "OSA", "ESA", "AWG", "Scope", "OPM", "PD", "LD"}

\* the element constructed now was constructed with the same call as the
\* first element of the session
SameCallAsFirst == status # "none" /\ call = first.call

(***************************************************************************)
(* C11: for every radius, Bend90 and Bend180 expose exactly the anchors    *)
(* `in` and `out`, the end points of the drawn arc of that radius centred  *)
(* at the origin: Bend90 in = (radius, 0), out = (0, radius); Bend180      *)
(* in = (radius, 0), out = (-radius, 0), 2*radius apart on the x axis; the *)
(* drop point equals `out`.                                                *)
(***************************************************************************)
ThmC11_BendPorts ==
    \A c \in {"Bend90", "Bend180"} :
        Done(c) =>
            LET r == call.args.radius
                arc == segments[1]
            IN  /\ DOMAIN anchors = {"in", "out"}
                /\ anchors["in"] = <<r, R(0)>>
                /\ anchors["out"] = (IF c = "Bend90" THEN <<R(0), r>>
                                                     ELSE <<RNeg(r), R(0)>>)
                /\ c = "Bend90" =>
                      /\ RSub(anchors["in"][1], anchors["out"][1]) = r
                      /\ RSub(anchors["out"][2], anchors["in"][2]) = r
                /\ c = "Bend180" =>
                      RSub(anchors["in"][1], anchors["out"][1]) = RMul(R(2), r)
                /\ Len(segments) = 1
                /\ arc.kind = "SegmentArc"
                /\ arc.center = Origin
                /\ arc.width = RMul(R(2), r) /\ arc.height = RMul(R(2), r)
                /\ arc.theta1 = R(0)
                /\ arc.theta2 = (IF c = "Bend90" THEN R(90) ELSE R(180))
                /\ anchors["in"] = ArcEnd(arc, arc.theta1)
                /\ anchors["out"] = ArcEnd(arc, arc.theta2)
                /\ HasDrop /\ Drop = anchors["out"]

\* Bend180(radius=2) returned with out = (-2, 0), 4 away from in = (2, 0)
WitC11_HalfTurnOfRadiusTwo ==
    /\ Done("Bend180")
    /\ call.args.radius = R(2)
    /\ anchors["in"] = <<R(2), R(0)>>
    /\ anchors["out"] = <<R(-2), R(0)>>
    /\ RSub(anchors["in"][1], anchors["out"][1]) = R(4)

(***************************************************************************)
(* C12: PolCtrl exposes exactly `in` = (0,0) and `out` = (length, 0) with  *)
(* length = 6 * 0.19; VOA exposes exactly `W` = (0,0) and `E` = (width, 0) *)
(* with width = 0.7.  In both the two anchors lie on one horizontal line,  *)
(* their distance is the length (width) of the element, and the drop point *)
(* is the output anchor.                                                   *)
(***************************************************************************)
ThmC12_TwoPortLine ==
    /\ Done("PolCtrl") =>
          LET length == RMul(R(6), Dec(19, 100))
          IN  /\ DOMAIN anchors = {"in", "out"}
              /\ anchors["in"] = Origin
              /\ anchors["out"] = <<length, R(0)>>
              /\ anchors["in"][2] = anchors["out"][2]
              /\ RSub(anchors["out"][1], anchors["in"][1]) = length
              /\ segments[1] = Segment(<< anchors["in"], anchors["out"] >>)
              /\ HasDrop /\ Drop = anchors["out"]
    /\ Done("VOA") =>
          LET width == Dec(7, 10)
          IN  /\ DOMAIN anchors = {"W", "E"}
              /\ anchors["W"] = Origin
              /\ anchors["E"] = <<width, R(0)>>
              /\ anchors["W"][2] = anchors["E"][2]
              /\ RSub(anchors["E"][1], anchors["W"][1]) = width
              /\ {v[1] : v \in {segments[1].verts[k] : k \in 1 .. 5}} = {R(0), width}
              /\ HasDrop /\ Drop = anchors["E"]

\* PolCtrl() returned with out at the float 6 * 0.19 = 1.1400000000000001,
\* the float next above 1.14
WitC12_ControllerLength ==
    /\ Done("PolCtrl")
    /\ anchors["out"] = <<RMul(R(6), Dec(19, 100)), R(0)>>
    /\ RLt(Dec(114, 100), anchors["out"][1])
    /\ Near(anchors["out"][1], Dec(114, 100), R(1))
    /\ Drop = anchors["out"]

(***************************************************************************)
(* C13: every element class of comms.py sets a drop point, and for all     *)
(* valid parameters the drop point is the coordinate of at least one       *)
(* anchor of the same element.                                             *)
(***************************************************************************)
ThmC13_DropIsAnAnchor ==
    (status = "ok" /\ call.cls \notin WrapperClasses) =>
        /\ HasDrop
        /\ \E name \in DOMAIN anchors : anchors[name] = Drop

\* Circulator() returned with its drop point on port 2 and on no other port
WitC13_CirculatorPort ==
    /\ Done("Circulator")
    /\ Drop = anchors["2"]
    /\ Drop # anchors["1"] /\ Drop # anchors["3"]

(***************************************************************************)
(* C14: determinism of the elements that draw no random numbers.  Two      *)
(* constructions of such a class with identical parameters return the same *)
(* ordered list of primitives with the same coordinates, the same anchor   *)
(* map and the same drop point (or fail alike), whatever was constructed   *)
(* before or in between.                                                   *)
(***************************************************************************)
ThmC14_SameCallSameElement ==
    (SameCallAsFirst /\ call.cls \notin RandomClasses) =>
        /\ status = first.status
        /\ segments = first.segments
        /\ anchors = first.anchors
        /\ elmparams = first.elmparams

\* AWG() constructed first and again after a randomized instrument moved the
\* generator: the same 500-point waveform
WitC14_AWGAgainAfterDraws ==
    /\ Done("AWG")
    /\ call = first.call
    /\ drawers # {}
    /\ Len(segments[Len(segments)].verts) = 500
    /\ segments = first.segments

(***************************************************************************)
(* C15: in the randomized instruments the draws affect only the y          *)
(* coordinates of the one waveform path.  Two constructions with identical *)
(* parameters and any two sequences of draws agree on the anchor map, the  *)
(* drop point, the border polygon, the screen, knob and button primitives, *)
(* the number of points of the waveform path and the x coordinate of each  *)
(* of its points.                                                          *)
(***************************************************************************)
ThmC15_DrawsMoveOnlyTraceHeights ==
    (SameCallAsFirst /\ status = "ok" /\ call.cls \in RandomClasses) =>
        LET n == Len(segments)
            trace == segments[n]
            trace0 == first.segments[n]
        IN  /\ first.status = "ok"
            /\ anchors = first.anchors
            /\ elmparams = first.elmparams
            /\ Len(first.segments) = n
            /\ \A i \in 1 .. (n - 1) : segments[i] = first.segments[i]
            /\ trace.kind = "Segment" /\ trace0.kind = "Segment"
            /\ DOMAIN trace = DOMAIN trace0
            /\ Len(trace.path) = Len(trace0.path)
            /\ \A k \in 1 .. Len(trace.path) : trace.path[k][1] = trace0.path[k][1]

\* OSA() constructed twice with different draws: the two spectra differ in
\* the height of some point
WitC15_TwoSpectra ==
    /\ Done("OSA")
    /\ call = first.call
    /\ \E k \in 1 .. 150 :
          segments[Len(segments)].path[k][2] # first.segments[Len(segments)].path[k][2]

(***************************************************************************)
(* C16, as stated: exactly two element classes produce output that depends *)
(* on pseudo-random draws: in a session at most two classes ever draw.     *)
(***************************************************************************)
CexC16_TwoRandomClasses == Cardinality(drawers) <= 2

(***************************************************************************)
(* C16, amended: exactly three element classes, OSA, ESA and Scope,        *)
(* produce output that depends on pseudo-random draws.  Only these three   *)
(* move the generator, and only these three can return different          *)
(* primitives for the same call; every other class is deterministic given  *)
(* its parameters.                                                         *)
(***************************************************************************)
ThmC16_ThreeRandomClasses ==
    /\ drawers \subseteq RandomClasses
    /\ (SameCallAsFirst /\ call.cls \notin RandomClasses) =>
           segments = first.segments /\ status = first.status

\* all three have drawn, and Scope(), the third to draw, returned another
\* waveform than it returns from the freshly seeded generator
WitC16_ScopeIsTheThird ==
    /\ drawers = {"OSA", "ESA", "Scope"}
    /\ Done("Scope")
    /\ Len(segments) = Len(Default["Scope"][Seeded0].segments)
    /\ segments # Default["Scope"][Seeded0].segments

(***************************************************************************)
(* C17: constructions do not interact.  Constructing an element leaves     *)
(* unchanged every piece of module-level state that a later construction   *)
(* reads: the state of the process-wide generator stays as it was.         *)
(***************************************************************************)
CexC17_GeneratorUntouched == [][rng' = rng]_vars

(***************************************************************************)
(* C18: decorating never changes the bordered shape.  For BS, PM, MZM,     *)
(* IQM, OSA, ESA, AWG, Scope, OPM, PD and LD and all widths, heights and   *)
(* counts the anchor map and the drop point are exactly those of           *)
(* Rectangle(width, height, numN, numS, numE, numW), the border polygon is *)
(* the first primitive of the list, and the subclass only appends          *)
(* primitives after it.                                                    *)
(***************************************************************************)
ThmC18_DecorationOnlyAppends ==
    (call.cls \in DecoratedClasses /\ status # "none") =>
        LET rect == RectangleInit(A.width, A.height, A.numN, A.numS, A.numE,
                                  A.numW, A.fillcol)
        IN  IF rect.raised # "none"
            THEN status = rect.raised
            ELSE /\ status = "ok"
                 /\ anchors = rect.anchors
                 /\ HasDrop /\ Drop = rect.elmparams["drop"]
                 /\ Len(segments) > Len(rect.segments)
                 /\ SubSeq(segments, 1, Len(rect.segments)) = rect.segments
                 /\ segments[1].kind = "SegmentPoly"
                 /\ segments[1].verts = RectangleBorder(A.width, A.height)

\* IQM(width=1.5, height=1, numE=2) returned: the border first, fourteen
\* primitives of the lattice after it, drop at E1
WitC18_IQMOverBorder ==
    /\ Done("IQM")
    /\ A.width = Dec(15, 10) /\ A.height = R(1) /\ A.numE = 2
    /\ segments[1].verts = RectangleBorder(Dec(15, 10), R(1))
    /\ Len(segments) = 15
    /\ Drop = anchors["E1"]

(***************************************************************************)
(* C19: Fiber exposes an anchor named `in` and an anchor named `out`.      *)
(***************************************************************************)
CexC19_FiberInOut == Done("Fiber") => {"in", "out"} \subseteq DOMAIN anchors

(***************************************************************************)
(* C20: the degenerate 0 x 0 shape is permitted.  Constructing CouplerDot  *)
(* succeeds and yields exactly the anchors N0, S0, E0, W0, all at (0,0), a *)
(* 5-vertex border polygon whose vertices are all (0,0), and the drop      *)
(* point (0,0).                                                            *)
(***************************************************************************)
ThmC20_DotAtOrigin ==
    call.cls = "CouplerDot" =>
        /\ status = "ok"
        /\ DOMAIN anchors = {"N0", "S0", "E0", "W0"}
        /\ \A name \in DOMAIN anchors : anchors[name] = Origin
        /\ Len(segments) = 1
        /\ segments[1].kind = "SegmentPoly"
        /\ Len(segments[1].verts) = 5
        /\ \A k \in 1 .. 5 : segments[1].verts[k] = Origin
        /\ HasDrop /\ Drop = Origin

\* CouplerDot() returned with its four anchors and its drop point at (0,0)
WitC20_DotReturned ==
    /\ Done("CouplerDot")
    /\ Cardinality(DOMAIN anchors) = 4
    /\ anchors["E0"] = Origin
    /\ Drop = Origin

(***************************************************************************)
(* C21: for all numE, numW >= 1, MUX exposes exactly the anchors           *)
(* E0..E{numE-1} and W0..W{numW-1}, evenly spaced by the same law on edges *)
(* of different length: E{i} = (1, (i+1)*1/(numE+1) - 1/2) on the short    *)
(* right side and W{i} = (0, (i+1)*2.5/(numW+1) - 1.25) on the long left   *)
(* side; every anchor lies on the trapezoid outline strictly between its   *)
(* corners, and the drop point equals E{numE-1}.                           *)
(***************************************************************************)
ThmC21_MuxPorts ==
    (Done("MUX") /\ A.numE >= 1 /\ A.numW >= 1) =>
        LET corner == segments[1].verts
        IN  /\ DOMAIN anchors = EdgeNames("E", A.numE) \cup EdgeNames("W", A.numW)
            /\ \A i \in 0 .. (A.numE - 1) :
                  LET p == anchors[FStr("E", i)]
                  IN  /\ p = <<R(1), RSub(Along(i, R(1), A.numE), Dec(1, 2))>>
                      /\ p[1] = corner[2][1] /\ p[1] = corner[3][1]
                      /\ RLt(corner[3][2], p[2]) /\ RLt(p[2], corner[2][2])
            /\ \A i \in 0 .. (A.numW - 1) :
                  LET p == anchors[FStr("W", i)]
                  IN  /\ p = <<R(0), RSub(Along(i, Dec(25, 10), A.numW),
                                          Dec(125, 100))>>
                      /\ p[1] = corner[1][1] /\ p[1] = corner[4][1]
                      /\ RLt(corner[4][2], p[2]) /\ RLt(p[2], corner[1][2])
            /\ segments[1].kind = "SegmentPoly"
            /\ corner = << <<R(0), Dec(5, 4)>>, <<R(1), Dec(1, 2)>>,
                           <<R(1), Dec(-1, 2)>>, <<R(0), Dec(-5, 4)>>,
                           <<R(0), Dec(5, 4)>> >>
            /\ HasDrop /\ Drop = anchors[FStr("E", A.numE - 1)]

\* MUX(numE=2, numW=3) returned: W0 = (0, -5/8) on the long side, beyond the
\* reach of the short one, and drop = E1 = (1, 2/3 - 1/2)
WitC21_TwoToThree ==
    /\ Done("MUX")
    /\ A.numE = 2 /\ A.numW = 3
    /\ anchors["W0"] = <<R(0), Dec(-5, 8)>>
    /\ Drop = <<R(1), RSub(Dec(2, 3), Dec(1, 2))>>

\* the square of a number
Sq(x) == RMul(x, x)

(***************************************************************************)
(* C22: anchors of the round elements sit on the drawn closed curve at its *)
(* axis extremes.  Circulator exposes exactly 1 = (-0.5,0), 2 = (0.5,0),   *)
(* 3 = (0,-0.5), each at distance 0.5, the radius of the drawn circle,     *)
(* from its centre (0,0), with drop point = anchor 2.  CouplerCirc exposes *)
(* exactly N0 = (0.15,0.075), S0 = (0.15,-0.075), E0 = (0.3,0),            *)
(* W0 = (0,0), each satisfying the equation of the ellipse centred at      *)
(* (0.15,0) with semi-axes 0.15 and 0.075, with drop point = E0; the drawn *)
(* closed path starts at E0 and stays within the box whose side midpoints  *)
(* the four anchors are.                                                   *)
(***************************************************************************)
ThmC22_RoundElementPorts ==
    /\ Done("Circulator") =>
          LET circle == segments[1]
          IN  /\ DOMAIN anchors = {"1", "2", "3"}
              /\ anchors["1"] = <<Dec(-5, 10), R(0)>>
              /\ anchors["2"] = <<Dec(5, 10), R(0)>>
              /\ anchors["3"] = <<R(0), Dec(-5, 10)>>
              /\ circle.kind = "SegmentCircle"
              /\ circle.center = Origin /\ circle.radius = Dec(5, 10)
              /\ \A name \in DOMAIN anchors :
                    RAdd(Sq(RSub(anchors[name][1], circle.center[1])),
                         Sq(RSub(anchors[name][2], circle.center[2])))
                        = Sq(circle.radius)
              /\ HasDrop /\ Drop = anchors["2"]
    /\ Done("CouplerCirc") =>
          LET a == Dec(15, 100)
              b == Dec(75, 1000)
              path == segments[1].path
          IN  /\ DOMAIN anchors = {"N0", "S0", "E0", "W0"}
              /\ anchors["N0"] = <<a, b>>
              /\ anchors["S0"] = <<a, RNeg(b)>>
              /\ anchors["E0"] = <<Dec(3, 10), R(0)>>
              /\ anchors["W0"] = Origin
              /\ \A name \in DOMAIN anchors :
                    RAdd(Sq(RDiv(RSub(anchors[name][1], a), a)),
                         Sq(RDiv(anchors[name][2], b))) = R(1)
              /\ segments[1].kind = "Segment"
              /\ Len(path) = 50
              /\ path[1] = anchors["E0"] /\ path[50] = path[1]
              /\ \A k \in 1 .. 50 :
                    /\ RLe(anchors["W0"][1], path[k][1])
                    /\ RLe(path[k][1], anchors["E0"][1])
                    /\ RLe(anchors["S0"][2], path[k][2])
                    /\ RLe(path[k][2], anchors["N0"][2])
              /\ HasDrop /\ Drop = anchors["E0"]

\* CouplerCirc() returned: its closed 50-point path starts at E0 = (0.3, 0),
\* the drop point, and N0 is the top of the ellipse
WitC22_EllipseFromEast ==
    /\ Done("CouplerCirc")
    /\ segments[1].path[1] = <<Dec(3, 10), R(0)>>
    /\ Drop = <<Dec(3, 10), R(0)>>
    /\ anchors["N0"] = <<Dec(15, 100), Dec(75, 1000)>>

(***************************************************************************)
(* C23: each of BS, PM, MZM and OPM constructed without size arguments has *)
(* the width and height its class docstring states as the default (BS      *)
(* 0.3 x 0.3, PM 0.5 x 0.5, MZM 1.5 x 0.9, OPM 1.5 x 1), so that its       *)
(* default E0 anchor and drop point are at (documented width, 0).          *)
(***************************************************************************)
CexC23_DocumentedDefaults ==
    LET documented ==
            [BS  |-> <<Dec(3, 10), Dec(3, 10)>>,
             PM  |-> <<Dec(5, 10), Dec(5, 10)>>,
             MZM |-> <<Dec(15, 10), Dec(9, 10)>>,
             OPM |-> <<Dec(15, 10), R(1)>>]
    IN  \A c \in DOMAIN documented :
            Done(c) =>
                /\ A.width = documented[c][1]
                /\ A.height = documented[c][2]
                /\ segments[1].verts = RectangleBorder(documented[c][1],
                                                       documented[c][2])
                /\ anchors["E0"] = <<documented[c][1], R(0)>>
                /\ Drop = <<documented[c][1], R(0)>>

\* anchors i and n-1-i of an edge, which mirror each other about its centre
Mirrored(prefix, axis, i, n) ==
    RAdd(anchors[FStr(prefix, i)][axis], anchors[FStr(prefix, n - 1 - i)][axis])

\* when two opposite edges get the same count, their anchors face each other
Facing ==
    /\ A.numN = A.numS =>
          \A i \in 0 .. (A.numN - 1) :
              anchors[FStr("N", i)][1] = anchors[FStr("S", i)][1]
    /\ A.numE = A.numW =>
          \A i \in 0 .. (A.numE - 1) :
              anchors[FStr("E", i)][2] = anchors[FStr("W", i)][2]

(***************************************************************************)
(* C24, as claimed: anchors of Rectangle are mirror-symmetric about the    *)
(* centre of their edge.  For every count n >= 1 and every i in 0..n-1,    *)
(* E{i}.y + E{n-1-i}.y = 0, W{i}.y + W{n-1-i}.y = 0,                       *)
(* N{i}.x + N{n-1-i}.x = width and S{i}.x + S{n-1-i}.x = width; and when   *)
(* two opposite edges get the same count, their anchors face each other:   *)
(* N{i}.x = S{i}.x and E{i}.y = W{i}.y for all i.                          *)
(***************************************************************************)
CexC24_ExactMirrorSymmetry ==
    RectDone =>
        /\ \A i \in 0 .. (A.numE - 1) : Mirrored("E", 2, i, A.numE) = R(0)
        /\ \A i \in 0 .. (A.numW - 1) : Mirrored("W", 2, i, A.numW) = R(0)
        /\ \A i \in 0 .. (A.numN - 1) : Mirrored("N", 1, i, A.numN) = A.width
        /\ \A i \in 0 .. (A.numS - 1) : Mirrored("S", 1, i, A.numS) = A.width
        /\ Facing

(***************************************************************************)
(* C24, amended: anchors of Rectangle are mirror-symmetric about the       *)
(* centre of their edge up to the rounding of the float operations.  For   *)
(* every count n >= 1 and every i in 0..n-1, E{i}.y + E{n-1-i}.y and       *)
(* W{i}.y + W{n-1-i}.y differ from 0 by at most 2^-50 * height,            *)
(* N{i}.x + N{n-1-i}.x and S{i}.x + S{n-1-i}.x differ from width by at     *)
(* most 2^-50 * width; when two opposite edges get the same count, their   *)
(* anchors face each other exactly: N{i}.x = S{i}.x and E{i}.y = W{i}.y    *)
(* for all i.                                                              *)
(***************************************************************************)
ThmC24_MirrorSymmetryUpToRounding ==
    RectDone =>
        /\ \A i \in 0 .. (A.numE - 1) :
              Near(Mirrored("E", 2, i, A.numE), R(0), A.height)
        /\ \A i \in 0 .. (A.numW - 1) :
              Near(Mirrored("W", 2, i, A.numW), R(0), A.height)
        /\ \A i \in 0 .. (A.numN - 1) :
              Near(Mirrored("N", 1, i, A.numN), A.width, A.width)
        /\ \A i \in 0 .. (A.numS - 1) :
              Near(Mirrored("S", 1, i, A.numS), A.width, A.width)
        /\ Facing

\* Rectangle(width=2, height=1, numN=3, numS=3, numE=2, numW=2) returned:
\* W0 and W1 are the floats 1/3 - 1/2 and 2/3 - 1/2, whose sum is not 0 and
\* is within the rounding of it; W0 faces E0; N0 = (1/2, 1/2) mirrors
\* N2 = (3/2, 1/2) and faces S0
WitC24_ThreeOverTwo ==
    /\ RectDone
    /\ A.width = R(2) /\ A.height = R(1)
    /\ A.numN = 3 /\ A.numS = 3 /\ A.numE = 2 /\ A.numW = 2
    /\ anchors["W0"] = <<R(0), RSub(Dec(1, 3), Dec(1, 2))>>
    /\ anchors["W1"] = <<R(0), RSub(Dec(2, 3), Dec(1, 2))>>
    /\ Mirrored("W", 2, 0, 2) # R(0)
    /\ Near(Mirrored("W", 2, 0, 2), R(0), R(1))
    /\ anchors["E0"][2] = anchors["W0"][2]
    /\ anchors["N0"] = <<Dec(1, 2), Dec(1, 2)>>
    /\ anchors["N2"] = <<Dec(3, 2), Dec(1, 2)>>
    /\ anchors["S0"][1] = anchors["N0"][1]

\* height*(numE-1)/(2*(numE+1))
DropHeight(height, numE) == RDiv(RMul(height, R(numE - 1)), R(2 * (numE + 1)))

(***************************************************************************)
(* C25, as claimed: the drop point of a Rectangle lies on the horizontal   *)
(* axis through the local origin (y = 0, the line of the single input      *)
(* anchor W0 of a numW = 1 element) if and only if numE = 1.  For          *)
(* height > 0 and numE = 1 the drop point is (width, 0); for every         *)
(* numE >= 2 the drop point has y = height*(numE-1)/(2*(numE+1)), which is *)
(* non-zero.                                                               *)
(***************************************************************************)
CexC25_DropHeightExact ==
    (RectDone /\ RLt(R(0), A.height)) =>
        /\ HasDrop
        /\ Drop[2] = R(0) <=> A.numE = 1
        /\ A.numE = 1 => Drop = <<A.width, R(0)>>
        /\ A.numE >= 2 =>
              /\ Drop[1] = A.width
              /\ Drop[2] = DropHeight(A.height, A.numE)
              /\ Drop[2] # R(0)

(***************************************************************************)
(* C25, amended: the drop point of a Rectangle lies on the horizontal axis *)
(* through the local origin (y = 0, the line of the single input anchor W0 *)
(* of a numW = 1 element) if and only if numE = 1.  For height > 0 and     *)
(* numE = 1 the drop point is (width, 0); for every numE >= 2 the drop     *)
(* point is above the axis, at the float (numE*height/(numE+1)) - height/2,*)
(* which differs from height*(numE-1)/(2*(numE+1)) by at most              *)
(* 2^-50 * height, so default left-to-right chaining of such an element is *)
(* shifted vertically.                                                     *)
(***************************************************************************)
ThmC25_DropOnAxisIffOneEast ==
    (RectDone /\ RLt(R(0), A.height)) =>
        /\ HasDrop
        /\ Drop[2] = R(0) <=> A.numE = 1
        /\ A.numE = 1 => Drop = <<A.width, R(0)>>
        /\ A.numE >= 2 =>
              /\ Drop[1] = A.width
              /\ Drop[2] = Across(A.numE - 1, A.height, A.numE)
              /\ Near(Drop[2], DropHeight(A.height, A.numE), A.height)
              /\ RLt(R(0), Drop[2])
        /\ A.numW = 1 => anchors["W0"] = Origin

\* Rectangle(width=1, height=1, numE=2, numW=1) returned: input W0 on the
\* axis, drop point E1 above it at 2/3 - 1/2 = 0.16666666666666663, which is
\* not the float 1/6
WitC25_DropOffAxis ==
    /\ RectDone
    /\ A.width = R(1) /\ A.height = R(1) /\ A.numE = 2 /\ A.numW = 1
    /\ anchors["W0"] = Origin
    /\ Drop = <<R(1), RSub(Dec(2, 3), Dec(1, 2))>>
    /\ Drop[2] # Dec(1, 6)
    /\ RLt(Drop[2], Dec(1, 6))

\* n draws that all return r
ConstantDraws(r, n) == [k \in 1 .. n |-> r]

\* the traces of the randomized instruments when every draw returns r.  The
\* height of every trace point grows with each draw it uses, and rounding
\* keeps the order of the results of an operation, so the traces for r = 0
\* and for r = 1 enclose the trace of every sequence of draws in [0, 1).
TracesWhenAllDraws(r) ==
    [OSA   |-> OSATrace(ConstantDraws(r, OSADrawsBefore(150, 150))),
     ESA   |-> ESATrace(ConstantDraws(r, ESADrawsBefore(200, 1, 200))),
     Scope |-> ScopeTrace(ConstantDraws(r, 120))]

LowestTraces == TracesWhenAllDraws(R(0))
HighestTraces == TracesWhenAllDraws(R(1))

\* p lies inside the rectangle with corners (x0, y1), (x1, y1), (x1, y0), (x0, y0)
InsideScreen(p, screen) ==
    /\ RLe(screen[1][1], p[1]) /\ RLe(p[1], screen[2][1])
    /\ RLe(screen[3][2], p[2]) /\ RLe(p[2], screen[1][2])

(***************************************************************************)
(* C26: for every possible sequence of random draws in [0,1), every point  *)
(* of the waveform path drawn by OSA (150 points), ESA (200 points) and    *)
(* Scope (120 points) lies inside the instrument's screen rectangle        *)
(* x in [0.2, 1.3], y in [-0.35, 0.35]: the trace an instrument returns    *)
(* lies between the trace with every draw 0 and the trace with every draw  *)
(* 1, point by point, and both of these lie inside the screen, so the      *)
(* jitter can never push the trace outside.                                *)
(***************************************************************************)
ThmC26_TraceStaysOnScreen ==
    \A c \in RandomClasses :
        Done(c) =>
            LET screen == segments[2].verts
                trace == segments[Len(segments)].path
                lo == LowestTraces[c]
                hi == HighestTraces[c]
            IN  /\ screen = << <<Dec(2, 10), Dec(35, 100)>>,
                               <<Dec(13, 10), Dec(35, 100)>>,
                               <<Dec(13, 10), Dec(-35, 100)>>,
                               <<Dec(2, 10), Dec(-35, 100)>> >>
                /\ Len(trace) = (CASE c = "OSA" -> 150 [] c = "ESA" -> 200
                                   [] c = "Scope" -> 120)
                /\ Len(lo) = Len(trace) /\ Len(hi) = Len(trace)
                /\ \A k \in 1 .. Len(trace) :
                      /\ InsideScreen(lo[k], screen)
                      /\ InsideScreen(hi[k], screen)
                      /\ InsideScreen(trace[k], screen)
                      /\ lo[k][1] = trace[k][1] /\ hi[k][1] = trace[k][1]
                      /\ RLe(lo[k][2], trace[k][2]) /\ RLe(trace[k][2], hi[k][2])

\* ESA() returned with a point of its trace above y = 0.2, lifted by jitter
\* above the lowest trace and still below the top of the screen
WitC26_PeakUnderTheTop ==
    /\ Done("ESA")
    /\ \E k \in 1 .. 200 :
          /\ RLt(Dec(2, 10), segments[Len(segments)].path[k][2])
          /\ RLt(LowestTraces["ESA"][k][2], segments[Len(segments)].path[k][2])
          /\ RLt(segments[Len(segments)].path[k][2], Dec(35, 100))

\* the two ends of a line primitive
Start(seg) == seg.path[1]
End(seg) == seg.path[Len(seg.path)]

\* the reflection of a point across the axis y = 0
MirrorY(p) == <<p[1], RNeg(p[2])>>

\* pieces i, i+1, i+2 of the drawing are a lead-in, a closed hexagon entered
\* at its first vertex and left at the opposite one, and a lead-out
MzmChain(i) ==
    LET leadin == segments[i]
        hexagon == segments[i + 1]
        leadout == segments[i + 2]
        v == hexagon.verts
    IN  /\ leadin.kind = "Segment" /\ leadout.kind = "Segment"
        /\ hexagon.kind = "SegmentPoly" /\ Len(v) = 7
        /\ End(leadin) = v[1]
        /\ v[7] = v[1]
        /\ v[4] = Start(leadout)
        /\ v[1][2] = v[4][2]
        /\ \A k \in 1 .. 3 : v[k + 1][1] = v[7 - k][1]

DefaultMZM ==
    /\ Done("MZM") /\ A.width = Dec(16, 10) /\ A.height = R(1)
    /\ A.numE = 1 /\ A.numW = 1

DefaultIQM ==
    /\ Done("IQM") /\ A.width = Dec(25, 10) /\ A.height = Dec(13, 10)
    /\ A.numE = 1 /\ A.numW = 1

\* the waveguide of the default IQM: a lead from W0 to the branch, two arms
\* from the branch to the rejoin, mirror images of each other across y = 0,
\* and a lead from the rejoin to E0
IqmChain(branch, rejoin) ==
    /\ Len(segments) = 15
    /\ anchors["W0"] = Origin /\ anchors["E0"] = <<Dec(25, 10), R(0)>>
    /\ \A i \in {2, 3, 4, 6, 7, 8, 9, 10, 12, 13} : segments[i].kind = "Segment"
    \* input lead, from W0 to the branch
    /\ Start(segments[2]) = anchors["W0"]
    /\ End(segments[2]) = branch
    \* upper arm: pieces 3 .. 7, from the branch to the rejoin
    /\ Start(segments[3]) = branch
    /\ End(segments[3]) = Start(segments[4])
    /\ MzmChain(4)
    /\ End(segments[6]) = Start(segments[7])
    /\ End(segments[7]) = rejoin
    \* output lead, from the rejoin to E0
    /\ Start(segments[8]) = rejoin
    /\ End(segments[8]) = anchors["E0"]
    \* lower arm: pieces 9 .. 13, from the branch to the rejoin
    /\ Start(segments[9]) = branch
    /\ End(segments[9]) = Start(segments[10])
    /\ MzmChain(10)
    /\ End(segments[12]) = Start(segments[13])
    /\ End(segments[13]) = rejoin
    \* the lower arm is the upper arm reflected across y = 0
    /\ \A j \in {0, 1, 3, 4} :
          /\ Len(segments[3 + j].path) = 2
          /\ Start(segments[9 + j]) = MirrorY(Start(segments[3 + j]))
          /\ End(segments[9 + j]) = MirrorY(End(segments[3 + j]))
    /\ {MirrorY(segments[5].verts[k]) : k \in 1 .. 7}
           = {segments[11].verts[k] : k \in 1 .. 7}

(***************************************************************************)
(* C27, as claimed: with default size and numE = numW = 1, the waveguide   *)
(* drawn inside MZM and IQM is a connected chain of primitives, each piece *)
(* starting where the previous one ends, that starts at the input anchor   *)
(* W0 = (0,0) and ends at the output anchor E0 = (width, 0), 1.6 for MZM   *)
(* and 2.5 for IQM; in IQM the two arms branch at (0.15,0), rejoin at      *)
(* (2.35,0) and are mirror images of each other across y = 0.              *)
(***************************************************************************)
CexC27_ChainsEndOnAnchors ==
    /\ DefaultMZM =>
          /\ Len(segments) = 4
          /\ anchors["W0"] = Origin /\ anchors["E0"] = <<Dec(16, 10), R(0)>>
          /\ Start(segments[2]) = anchors["W0"]
          /\ MzmChain(2)
          /\ End(segments[4]) = anchors["E0"]
    /\ DefaultIQM => IqmChain(<<Dec(15, 100), R(0)>>, <<Dec(235, 100), R(0)>>)

(***************************************************************************)
(* C27, amended: with default size and numE = numW = 1, the waveguide      *)
(* drawn inside MZM and IQM is a connected chain of primitives, each piece *)
(* starting where the previous one ends, that starts at the input anchor   *)
(* W0 = (0,0) and ends on the axis y = 0 at the sum of the lengths of its  *)
(* pieces, which is the output anchor E0 = (width, 0) only up to the       *)
(* rounding of the float additions: in IQM the chain ends at E0 = (2.5, 0) *)
(* itself, in MZM at (1.5999999999999999, 0), within 2^-50 * width of      *)
(* E0 = (1.6, 0); in IQM the two arms branch at (0.15,0), rejoin at the    *)
(* same point (2.3499999999999996, 0), within 2^-50 * width of (2.35, 0),  *)
(* and are mirror images of each other across y = 0.                       *)
(***************************************************************************)
ThmC27_WaveguideChains ==
    /\ DefaultMZM =>
          /\ Len(segments) = 4
          /\ anchors["W0"] = Origin /\ anchors["E0"] = <<Dec(16, 10), R(0)>>
          /\ Start(segments[2]) = anchors["W0"]
          /\ MzmChain(2)
          /\ End(segments[4])[2] = anchors["E0"][2]
          /\ Near(End(segments[4])[1], anchors["E0"][1], A.width)
    /\ DefaultIQM =>
          LET x == End(segments[7])[1]
          IN  /\ Near(x, Dec(235, 100), A.width)
              /\ IqmChain(<<Dec(15, 100), R(0)>>, <<x, R(0)>>)

\* MZM() returned: its chain ends at (1.5999999999999999, 0), one float
\* below E0 = (1.6, 0), and its hexagon closes on the lead-in
WitC27_EndBesideTheAnchor ==
    /\ DefaultMZM
    /\ anchors["E0"] = <<Dec(16, 10), R(0)>>
    /\ End(segments[4])[2] = R(0)
    /\ RLt(End(segments[4])[1], Dec(16, 10))
    /\ Near(End(segments[4])[1], Dec(16, 10), Dec(1, 4))
    /\ End(segments[2]) = <<Dec(15, 100), R(0)>>
    /\ segments[3].verts[1] = <<Dec(15, 100), R(0)>>

====
